---- MODULE Spec2Model ----
(***************************************************************************)
(* WFC3Library notebooks as state machines.                                *)
(*                                                                         *)
(* A notebook is a list of code cells run by one Python kernel.  The state *)
(* is the kernel's namespace (name -> value, or unbound), what the last    *)
(* cell printed and the exception it raised, and the position of the last  *)
(* cell that was run.  One action per code cell: the whole cell, statement *)
(* by statement; a statement that reads an unbound name raises NameError   *)
(* and the rest of the cell is skipped, the bindings made before it stay.  *)
(*                                                                         *)
(* Values.  Flux densities and magnitudes are carried on a logarithmic     *)
(* scale in hundredths of a magnitude, v = round(250 * log10(x)) for a     *)
(* flux of x and v = 100 * m for a magnitude m, so that products and       *)
(* quotients of fluxes are sums and differences, and a unit conversion is  *)
(* a wavelength-dependent offset.  A flux of zero, and the inf and nan     *)
(* that numpy makes of a division by it, are kinds of their own.           *)
(* Wavelength values are whole numbers in their own unit.                  *)
(***************************************************************************)
EXTENDS Integers, Sequences, FiniteSets, TLC

(***************************************************************************)
(* astropy / synphot units                                                 *)
(***************************************************************************)

\* The magnitude systems of the tool (mag system table of section 2.1).
MagUnitNames == {"STmag", "ABmag", "VEGAMAG"}

\* The named flux units of section 2.1.
FluxUnitNames == {"Jy", "FNU", "FLAM", "PHOTNU", "PHOTLAM"}

\* Units that are neither: a length and a temperature.
OtherUnitNames == {"m", "K"}

\* Unit.physical_type.  A magnitude unit reports the physical type of the
\* flux unit it is the logarithm of; VEGAMAG is a plain magnitude.
physical_type(unit) ==
    CASE unit \in {"Jy", "FNU", "ABmag"} -> "spectral flux density"
      [] unit \in {"FLAM", "STmag"}      -> "spectral flux density wav"
      [] unit = "PHOTNU"                 -> "photon flux density"
      [] unit = "PHOTLAM"                -> "photon flux density wav"
      [] unit \in {"m", "nm", "AA"}      -> "length"
      [] unit = "K"                      -> "temperature"
      [] OTHER                           -> "unknown"

(***************************************************************************)
(* Numbers on the logarithmic scale                                        *)
(***************************************************************************)

Num(k, v) == [k |-> k, v |-> v]

Fin(v) == Num("fin", v)

\* a * b
NumMul(a, b) ==
    CASE a.k = "nan" \/ b.k = "nan"                         -> Num("nan", 0)
      [] a.k = "fin" /\ b.k = "fin"                          -> Fin(a.v + b.v)
      [] {a.k, b.k} = {"zero", "inf"}                        -> Num("nan", 0)
      [] a.k = "zero" \/ b.k = "zero"                        -> Num("zero", 0)
      [] OTHER                                               -> Num("inf", 0)

\* 1 / a, as numpy divides: 1 / 0 is inf, no exception
NumInv(a) ==
    CASE a.k = "fin"  -> Fin(0 - a.v)
      [] a.k = "zero" -> Num("inf", 0)
      [] a.k = "inf"  -> Num("zero", 0)
      [] OTHER        -> Num("nan", 0)

\* a / b
NumDiv(a, b) == NumMul(a, NumInv(b))

\* A Quantity: a number with a unit
Quantity(n, unit) == [k |-> n.k, v |-> n.v, unit |-> unit]

QNum(q) == Num(q.k, q.v)

\* A wavelength Quantity
Wl(value, unit) == [value |-> value, unit |-> unit]

\* Angstrom per wavelength unit
AAper(unit) == IF unit = "nm" THEN 10 ELSE 1

\* Quantity.to(unit) for a wavelength
WlTo(w, unit) == Wl((w.value * AAper(w.unit)) \div AAper(unit), unit)

\* The wavelength in Angstrom
InAA(w) == w.value * AAper(w.unit)

\* round(250 * log10(lambda / Angstrom)) on the wavelengths of the model
LogWl(aa) ==
    CASE aa = 500  -> 675
      [] aa = 549  -> 685
      [] aa = 550  -> 685
      [] aa = 5000 -> 925
      [] aa = 5490 -> 935
      [] aa = 5500 -> 935
      [] aa = 5890 -> 943
      [] aa = 6060 -> 946
      [] aa = 6470 -> 953
      [] aa = 6860 -> 959
      [] aa = 8000 -> 976
      [] OTHER     -> 900

(***************************************************************************)
(* synphot: source spectra and convert_flux                                *)
(***************************************************************************)

NoQ == [k |-> "fin", v |-> 0, unit |-> "-"]

NoWl == [value |-> 0, unit |-> "-"]

\* A SourceSpectrum: the model it wraps, and the factor it was multiplied by.
Spectrum(kind, temp, amp, x_0, alpha) ==
    [kind |-> kind, temp |-> temp, amp |-> amp, x_0 |-> x_0, alpha |-> alpha,
     scale |-> Fin(0)]

\* SourceSpectrum.from_vega()
VegaSpectrum == Spectrum("vega", 0, NoQ, NoWl, 0)

\* No spectrum (vegaspec=None)
NoSpectrum == Spectrum("none", 0, NoQ, NoWl, 0)

\* SourceSpectrum(BlackBody1D(temp))
BlackBody1D(temp) == Spectrum("bb", temp, NoQ, NoWl, 0)

\* SourceSpectrum(PowerLawFlux1D(amplitude, x_0, alpha))
PowerLawFlux1D(amplitude, x_0, alpha) == Spectrum("pl", 0, amplitude, x_0, alpha)

\* The Vega spectrum in PHOTLAM; it has no flux outside its wavelength range.
VegaFlux(aa) ==
    CASE aa = 5000 -> Fin(768)
      [] aa = 5490 -> Fin(750)
      [] aa = 5500 -> Fin(750)
      [] aa = 5890 -> Fin(734)
      [] aa = 6060 -> Fin(729)
      [] aa = 6470 -> Fin(714)
      [] aa = 6860 -> Fin(704)
      [] aa = 8000 -> Fin(666)
      [] OTHER     -> Num("zero", 0)

\* Planck's law in PHOTLAM per steradian
BlackBodyFlux(temp, aa) ==
    IF temp = 5800
    THEN CASE aa = 500  -> Fin(609)
           [] aa = 549  -> Fin(1049)
           [] aa = 550  -> Fin(1057)
           [] aa = 5000 -> Fin(4458)
           [] aa = 5490 -> Fin(4465)
           [] aa = 5500 -> Fin(4466)
           [] aa = 5890 -> Fin(4469)
           [] aa = 6060 -> Fin(4469)
           [] aa = 6470 -> Fin(4470)
           [] aa = 6860 -> Fin(4468)
           [] aa = 8000 -> Fin(4460)
           [] OTHER     -> Fin(4400)
    ELSE CASE aa = 500  -> Fin(0 - 253)
           [] aa = 549  -> Fin(264)
           [] aa = 550  -> Fin(274)
           [] aa = 5000 -> Fin(4371)
           [] aa = 5490 -> Fin(4386)
           [] aa = 5500 -> Fin(4387)
           [] aa = 5890 -> Fin(4395)
           [] aa = 6060 -> Fin(4397)
           [] aa = 6470 -> Fin(4402)
           [] aa = 6860 -> Fin(4404)
           [] aa = 8000 -> Fin(4404)
           [] OTHER     -> Fin(4300)

\* log(value in unit) - log(value in PHOTLAM) at a wavelength, for a flux unit:
\* FLAM = PHOTLAM * h c / lambda, FNU = FLAM * lambda^2 / c,
\* PHOTNU = PHOTLAM * lambda^2 / c, Jy = 1e23 FNU.
FluxOffset(unit, aa) ==
    CASE unit = "PHOTLAM" -> 0
      [] unit = "FLAM"    -> 0 - 1925 - LogWl(aa)
      [] unit = "PHOTNU"  -> 2 * LogWl(aa) - 4619
      [] unit = "FNU"     -> LogWl(aa) - 6544
      [] unit = "Jy"      -> LogWl(aa) - 6544 + 5750

\* The flux unit a magnitude system is the logarithm of, and its zero point:
\* STmag = -2.5 log10(FLAM) - 21.10, ABmag = -2.5 log10(FNU) - 48.60.
MagBase(unit) == IF unit = "STmag" THEN "FLAM" ELSE "FNU"

MagZero(unit) == IF unit = "STmag" THEN 2110 ELSE 4860

\* A flux or magnitude as PHOTLAM at a wavelength; a magnitude of a flux
\* that is not finite keeps its kind.
ToPhotlam(aa, q, vegaflux) ==
    IF q.k # "fin" THEN QNum(q)
    ELSE CASE q.unit \in FluxUnitNames -> Fin(q.v - FluxOffset(q.unit, aa))
           [] q.unit = "VEGAMAG" -> NumMul(vegaflux, Fin(0 - q.v))
           [] OTHER -> Fin(0 - q.v - MagZero(q.unit) - FluxOffset(MagBase(q.unit), aa))

\* PHOTLAM at a wavelength as a flux or magnitude
FromPhotlam(aa, n, unit, vegaflux) ==
    IF n.k # "fin" THEN Quantity(n, unit)
    ELSE CASE unit \in FluxUnitNames -> Quantity(Fin(n.v + FluxOffset(unit, aa)), unit)
           [] unit = "VEGAMAG" ->
                LET r == NumDiv(n, vegaflux)
                IN  Quantity(IF r.k = "fin" THEN Fin(0 - r.v) ELSE r, unit)
           [] OTHER ->
                Quantity(Fin(0 - (n.v + FluxOffset(MagBase(unit), aa)) - MagZero(unit)), unit)

\* SourceSpectrum.__call__(wavelengths): the flux in PHOTLAM
SpecFlux(sp, w) ==
    LET aa == InAA(w)
        base == CASE sp.kind = "vega" -> VegaFlux(aa)
                  [] sp.kind = "bb"   -> BlackBodyFlux(sp.temp, aa)
                  [] sp.kind = "pl"   ->
                       NumMul(ToPhotlam(aa, sp.amp, VegaFlux(aa)),
                              Fin(0 - sp.alpha * (LogWl(aa) - LogWl(InAA(sp.x_0)))))
                  [] OTHER            -> Num("nan", 0)
    IN  Quantity(NumMul(base, sp.scale), "PHOTLAM")

\* SourceSpectrum.__mul__(factor)
SpecMul(sp, factor) == [sp EXCEPT !.scale = NumMul(sp.scale, factor)]

\* The exception convert_flux raises, "" when it returns: the units must be
\* flux units or magnitude systems, and VEGAMAG needs the Vega spectrum.
convert_flux_raises(q, out_flux_unit, vegaspec) ==
    IF \/ q.unit \notin FluxUnitNames \cup MagUnitNames
       \/ out_flux_unit \notin FluxUnitNames \cup MagUnitNames
    THEN "UnitsError"
    ELSE IF "VEGAMAG" \in {q.unit, out_flux_unit} /\ q.unit # out_flux_unit
            /\ vegaspec.kind = "none"
         THEN "SynphotError"
         ELSE ""

\* synphot.units.convert_flux(wavelengths, fluxes, out_flux_unit, vegaspec)
convert_flux(wavelengths, fluxes, out_flux_unit, vegaspec) ==
    LET aa == InAA(wavelengths)
        vf == IF vegaspec.kind = "none" THEN Num("nan", 0)
              ELSE QNum(SpecFlux(vegaspec, wavelengths))
    IN  IF fluxes.unit = out_flux_unit THEN fluxes
        ELSE FromPhotlam(aa, ToPhotlam(aa, fluxes, vf), out_flux_unit, vf)

(***************************************************************************)
(* stsynphot: bandpasses                                                   *)
(***************************************************************************)

\* An obsmode string or a number, as wl_bp_in and wl_bp_out hold them
Obsmode(str) == [kind |-> "str", num |-> 0, str |-> str]

Number(num) == [kind |-> "float", num |-> num, str |-> ""]

\* The exception band(obsmode) raises for what is no obsmode string
band_raises(x) == IF x.kind = "str" THEN "" ELSE "TypeError"

\* band(obsmode): obsmode keywords are case-insensitive, and the blanks after
\* the commas do not count
band(x) ==
    LET uvis == {cf \in {"uvis1", "uvis2"} \X {"f555w", "f606w", "f814w"} :
                    x.str \in {"wfc3, " \o cf[1] \o ", " \o cf[2],
                               "wfc3, " \o cf[1] \o "," \o cf[2]}}
    IN  CASE x.str \in {"johnson, v", "Johnson, V"}     -> [obsmode |-> "johnson,v"]
          [] x.str = "cousins, r"                        -> [obsmode |-> "cousins,r"]
          [] x.str = "cousins, i"                        -> [obsmode |-> "cousins,i"]
          [] x.str = "wfc3, uvis2, f606w, mjd#59367"     -> [obsmode |-> "wfc3,uvis2,f606w"]
          [] uvis # {} ->
               LET cf == CHOOSE t \in uvis : TRUE
               IN  [obsmode |-> "wfc3," \o cf[1] \o "," \o cf[2]]
          [] OTHER                                       -> [obsmode |-> x.str]

\* SpectralElement.pivot(): the pivot wavelength, in Angstrom
pivot(bp) ==
    CASE bp.obsmode = "johnson,v"        -> Wl(5490, "AA")
      [] bp.obsmode = "cousins,r"        -> Wl(6470, "AA")
      [] bp.obsmode = "wfc3,uvis2,f606w" -> Wl(5890, "AA")
      [] OTHER                           -> Wl(5000, "AA")

\* number * unit and str * unit: the latter raises
times_unit_raises(x) == IF x.kind = "float" THEN "" ELSE "TypeError"

(***************************************************************************)
(* The Python kernel                                                       *)
(***************************************************************************)

\* The namespace holds <<>> for an unbound name and <<value>> for a bound one.
Unbound == << >>

IsBound(n, name) == Len(n[name]) = 1

AllBound(n, names) == \A x \in names : IsBound(n, x)

V(n, name) == n[name][1]

\* Python's `x in list`
In(x, list) == \E i \in 1..Len(list) : list[i] = x

\* The run of one cell: the namespace, what was printed, the exception raised
\* ("" for none) and the branch of the cell's if statement that was taken.
Kernel(n) == [ns |-> n, out |-> "", err |-> "", br |-> "-"]

\* The one element of a set of one element.  A cell's statements run one
\* after the other, each on the kernel the one before it has left.
Once(S) == CHOOSE r \in S : TRUE

Raise(k, exc) == Once({IF x.err # "" THEN x ELSE [x EXCEPT !.err = exc] : x \in {k}})

\* One assignment statement, name = value: it reads the names `reads`, and the
\* library calls of its right-hand side raise `exc` ("" when they return).
\* Nothing runs after an exception.
Stmt(k, reads, exc, name, value) ==
    Once({IF x.err # "" THEN x
          ELSE IF ~AllBound(x.ns, reads) THEN [x EXCEPT !.err = "NameError"]
          ELSE IF exc # "" THEN [x EXCEPT !.err = exc]
          ELSE [x EXCEPT !.ns[name] = <<value>>] : x \in {k}})

\* An expression statement: it binds nothing.
Expr(k, reads, exc) ==
    Once({IF x.err # "" THEN x
          ELSE IF ~AllBound(x.ns, reads) THEN [x EXCEPT !.err = "NameError"]
          ELSE IF exc # "" THEN [x EXCEPT !.err = exc]
          ELSE x : x \in {k}})

\* print(text)
PrintStmt(k, text) == Once({IF x.err # "" THEN x ELSE [x EXCEPT !.out = text] : x \in {k}})

Branch(k, label) == Once({IF x.err # "" THEN x ELSE [x EXCEPT !.br = label] : x \in {k}})

(***************************************************************************)
(* flux_conversion_tool.ipynb                                              *)
(***************************************************************************)

FluxNames ==
    {"os", "np", "plt", "syn", "SourceSpectrum", "Observation", "BlackBody1D",
     "PowerLawFlux1D", "convert_flux", "u", "su", "vegaspec", "stsyn", "band",
     "val_in", "unit_in", "wl_bp_in", "wl_unit", "unit_out", "wl_bp_out", "spec",
     "quant_in", "mag_systems", "flux_systems",
     "mag_in", "band_in", "wl_in", "flux_in", "plot_unit", "plot_flux_in",
     "band_out", "wl_out", "scale", "scale_spec",
     "flux_out", "plot_flux_out", "val_out",
     "wl_settings", "short", "long", "diff", "right", "left", "waves",
     "c_in", "c_out", "bottom", "top", "yrange", "inheight", "outheight",
     "pl_index", "model", "bb_temp"}

\* Cell 7f440831: the imports, and the Vega spectrum.
Cell_7f440831(k) ==
    LET s1 == Stmt(k, {}, "", "os", "module")
        s2 == Stmt(s1, {}, "", "np", "module")
        s3 == Stmt(s2, {}, "", "plt", "module")
        s4 == Stmt(s3, {}, "", "syn", "module")
        s5 == Stmt(s4, {}, "", "SourceSpectrum", "class")
        s6 == Stmt(s5, {}, "", "Observation", "class")
        s7 == Stmt(s6, {}, "", "BlackBody1D", "class")
        s8 == Stmt(s7, {}, "", "PowerLawFlux1D", "class")
        s9 == Stmt(s8, {}, "", "convert_flux", "function")
        s10 == Stmt(s9, {}, "", "u", "module")
        s11 == Stmt(s10, {}, "", "su", "module")
    IN  Stmt(s11, {"SourceSpectrum"}, "", "vegaspec", VegaSpectrum)

\* A cell that holds comments only, or nothing: 528e42d3, f80d0021 and
\* f708c513 here, ad199734, 5eb68a42, 46610393 and d78e54fe in the filter
\* transformations notebook.
Cell_comment(k) == k

\* Cell 5e4bba39 without `from stsynphot import band`.
Cell_5e4bba39_NoBand(k) == Stmt(k, {}, "", "stsyn", "module")

\* Cell 5e4bba39: import stsynphot.
Cell_5e4bba39(k) ==
    Stmt(Stmt(k, {}, "", "stsyn", "module"), {}, "", "band", "function")

\* Cell de540dfe: the input settings, as the user typed them.
Cell_de540dfe(k, e) ==
    LET s1 == Stmt(k, {}, "", "val_in", e.val_in)
        s2 == Stmt(s1, {"su", "u"}, "", "unit_in", e.unit_in)
        s3 == Stmt(s2, {}, "", "wl_bp_in", e.wl_bp_in)
    IN  Stmt(s3, {"u"}, "", "wl_unit", e.wl_unit)

\* Cell 3d477832: the output settings.
Cell_3d477832(k, e) ==
    LET s1 == Stmt(k, {"su", "u"}, "", "unit_out", e.unit_out)
    IN  Stmt(s1, {}, "", "wl_bp_out", e.wl_bp_out)

\* The blackbody snippet of section 2.3.
BlackBodySnippet(k, temp) ==
    LET s1 == Stmt(k, {"u"}, "", "bb_temp", temp)
        s2 == Stmt(s1, {"BlackBody1D", "bb_temp"}, "", "model", BlackBody1D(V(s1.ns, "bb_temp")))
    IN  Stmt(s2, {"SourceSpectrum", "model"}, "", "spec", V(s2.ns, "model"))

\* The power law snippet of section 2.3, and of examples 5.1 and 5.4.
PowerLawSnippet(k) ==
    LET s1 == Stmt(k, {}, "", "pl_index", 0)
        s2 == Stmt(s1, {"PowerLawFlux1D", "flux_in", "wl_in", "pl_index"}, "", "model",
                   PowerLawFlux1D(V(s1.ns, "flux_in"), V(s1.ns, "wl_in"), V(s1.ns, "pl_index")))
    IN  Stmt(s2, {"SourceSpectrum", "model"}, "", "spec", V(s2.ns, "model"))

\* Cell b542e3c2: the spectrum, vegaspec as written or a snippet of section 2.3.
Cell_b542e3c2(k, e) ==
    CASE e.spec = "vegaspec"  -> Stmt(k, {"vegaspec"}, "", "spec", V(k.ns, "vegaspec"))
      [] e.spec = "blackbody" -> BlackBodySnippet(k, 5800)
      [] OTHER                -> PowerLawSnippet(k)

\* Cell 1caf81ab: the input quantity, and the systems the tool accepts.
Cell_1caf81ab(k) ==
    LET s1 == Stmt(k, {"val_in", "unit_in"}, "", "quant_in",
                   Quantity(Fin(V(k.ns, "val_in")), V(k.ns, "unit_in")))
        s2 == Stmt(s1, {"u", "su"}, "", "mag_systems", <<"STmag", "ABmag", "VEGAMAG">>)
    IN  Stmt(s2, {}, "", "flux_systems",
             <<"spectral flux density", "spectral flux density wav",
               "photon flux density", "photon flux density wav">>)

\* UnitBranch with the physical type tested before the magnitude systems.
UnitBranch_TypeFirst(unit, mag_systems, flux_systems) ==
    IF In(physical_type(unit), flux_systems) THEN "flux"
    ELSE IF In(unit, mag_systems) THEN "mag"
    ELSE "print"

\* The tests of the if / elif / else of cells 5338d317 and 5928f11f.
UnitBranch(unit, mag_systems, flux_systems) ==
    IF In(unit, mag_systems) THEN "mag"
    ELSE IF In(physical_type(unit), flux_systems) THEN "flux"
    ELSE "print"

\* BandWavelength without the conversion to wl_unit.
BandWavelength_NoTo(bp, wl_unit) == pivot(bp)

\* band(obsmode).pivot().to(wl_unit)
BandWavelength(bp, wl_unit) == WlTo(pivot(bp), wl_unit)

\* wl_bp * wl_unit
NumberWavelength(wl_bp, wl_unit) == Wl(wl_bp.num, wl_unit)

\* Cell 5338d317, the input is a magnitude.
InputMagnitude(k) ==
    LET n  == k.ns
        s1 == Stmt(k, {"quant_in"}, "", "mag_in", V(n, "quant_in"))
        s2 == Stmt(s1, {"band", "wl_bp_in"}, band_raises(V(n, "wl_bp_in")),
                   "band_in", band(V(n, "wl_bp_in")))
        s3 == Stmt(s2, {"band_in", "wl_unit"}, "",
                   "wl_in", BandWavelength(V(s2.ns, "band_in"), V(n, "wl_unit")))
        s4 == Stmt(s3, {"convert_flux", "wl_in", "quant_in", "su", "vegaspec"},
                   convert_flux_raises(V(n, "quant_in"), "PHOTLAM", V(n, "vegaspec")),
                   "flux_in",
                   convert_flux(V(s3.ns, "wl_in"), V(n, "quant_in"), "PHOTLAM", V(n, "vegaspec")))
        s5 == Stmt(s4, {"su"}, "", "plot_unit", "PHOTLAM")
    IN  Stmt(s5, {"convert_flux", "wl_in", "flux_in", "plot_unit"},
             convert_flux_raises(V(s5.ns, "flux_in"), V(s5.ns, "plot_unit"), NoSpectrum),
             "plot_flux_in",
             convert_flux(V(s5.ns, "wl_in"), V(s5.ns, "flux_in"), V(s5.ns, "plot_unit"), NoSpectrum))

\* InputFlux with the plotting unit of the magnitude branch.
InputFlux_PlotPhotlam(k) ==
    LET n  == k.ns
        s1 == Stmt(k, {"quant_in"}, "", "flux_in", V(n, "quant_in"))
        s2 == Stmt(s1, {"wl_bp_in", "wl_unit"}, times_unit_raises(V(n, "wl_bp_in")),
                   "wl_in", Wl(V(n, "wl_bp_in").num, V(n, "wl_unit")))
        s3 == Stmt(s2, {"su"}, "", "plot_unit", "PHOTLAM")
    IN  Stmt(s3, {"convert_flux", "wl_in", "flux_in", "plot_unit"},
             convert_flux_raises(V(s3.ns, "flux_in"), V(s3.ns, "plot_unit"), NoSpectrum),
             "plot_flux_in",
             convert_flux(V(s3.ns, "wl_in"), V(s3.ns, "flux_in"), V(s3.ns, "plot_unit"), NoSpectrum))

\* Cell 5338d317, the input is a flux.
InputFlux(k) ==
    LET n  == k.ns
        s1 == Stmt(k, {"quant_in"}, "", "flux_in", V(n, "quant_in"))
        s2 == Stmt(s1, {"wl_bp_in", "wl_unit"}, times_unit_raises(V(n, "wl_bp_in")),
                   "wl_in", NumberWavelength(V(n, "wl_bp_in"), V(n, "wl_unit")))
        s3 == Stmt(s2, {"unit_in"}, "", "plot_unit", V(n, "unit_in"))
    IN  Stmt(s3, {"convert_flux", "wl_in", "flux_in", "plot_unit"},
             convert_flux_raises(V(s3.ns, "flux_in"), V(s3.ns, "plot_unit"), NoSpectrum),
             "plot_flux_in",
             convert_flux(V(s3.ns, "wl_in"), V(s3.ns, "flux_in"), V(s3.ns, "plot_unit"), NoSpectrum))

\* InputOther with the plotting unit set as well.
InputOther_SetsPlotUnit(k) ==
    Stmt(PrintStmt(k, "unit_in not a flux density unit or magnitude system"),
         {"unit_in"}, "", "plot_unit", V(k.ns, "unit_in"))

\* Cell 5338d317, anything else.
InputOther(k) == PrintStmt(k, "unit_in not a flux density unit or magnitude system")

\* Cell 5338d317: the input setup.
Cell_5338d317(k) ==
    LET n == k.ns
    IN  IF ~AllBound(n, {"unit_in", "mag_systems", "flux_systems"})
        THEN Raise(k, "NameError")
        ELSE LET b == UnitBranch(V(n, "unit_in"), V(n, "mag_systems"), V(n, "flux_systems"))
             IN  CASE b = "mag"  -> InputMagnitude(Branch(k, b))
                   [] b = "flux" -> InputFlux(Branch(k, b))
                   [] OTHER      -> InputOther(Branch(k, b))

\* Cell 5928f11f, the output is a magnitude.
OutputMagnitude(k) ==
    LET n  == k.ns
        s1 == Stmt(k, {"band", "wl_bp_out"}, band_raises(V(n, "wl_bp_out")),
                   "band_out", band(V(n, "wl_bp_out")))
    IN  Stmt(s1, {"band_out", "wl_unit"}, "",
             "wl_out", BandWavelength(V(s1.ns, "band_out"), V(n, "wl_unit")))

\* Cell 5928f11f, the output is a flux.
OutputFlux(k) ==
    Stmt(k, {"wl_bp_out", "wl_unit"}, times_unit_raises(V(k.ns, "wl_bp_out")),
         "wl_out", NumberWavelength(V(k.ns, "wl_bp_out"), V(k.ns, "wl_unit")))

\* Cell 5928f11f, anything else.
OutputOther(k) == PrintStmt(k, "unit_out not a flux density unit or magnitude system")

\* Cell 5928f11f: the output setup.
Cell_5928f11f(k) ==
    LET n == k.ns
    IN  IF ~AllBound(n, {"unit_out", "mag_systems", "flux_systems"})
        THEN Raise(k, "NameError")
        ELSE LET b == UnitBranch(V(n, "unit_out"), V(n, "mag_systems"), V(n, "flux_systems"))
             IN  CASE b = "mag"  -> OutputMagnitude(Branch(k, b))
                   [] b = "flux" -> OutputFlux(Branch(k, b))
                   [] OTHER      -> OutputOther(Branch(k, b))

\* ScaleOf with the quotient upside down.
ScaleOf_Inverted(wl_in, flux_in, spec) ==
    NumDiv(QNum(SpecFlux(spec, wl_in)),
           QNum(convert_flux(wl_in, flux_in, "PHOTLAM", NoSpectrum)))

\* convert_flux(wl_in, flux_in, su.PHOTLAM) / spec(wl_in)
ScaleOf(wl_in, flux_in, spec) ==
    NumDiv(QNum(convert_flux(wl_in, flux_in, "PHOTLAM", NoSpectrum)),
           QNum(SpecFlux(spec, wl_in)))

\* ScaledSpectrum with the factor dropped.
ScaledSpectrum_Unscaled(spec, scale) == spec

\* spec * scale
ScaledSpectrum(spec, scale) == SpecMul(spec, scale)

\* Cell c747a9e6: scale the spectrum through the input.
Cell_c747a9e6(k) ==
    LET n  == k.ns
        s1 == Stmt(k, {"convert_flux", "wl_in", "flux_in", "su", "spec"},
                   convert_flux_raises(V(n, "flux_in"), "PHOTLAM", NoSpectrum),
                   "scale", ScaleOf(V(n, "wl_in"), V(n, "flux_in"), V(n, "spec")))
    IN  Stmt(s1, {"spec", "scale"}, "",
             "scale_spec", ScaledSpectrum(V(n, "spec"), V(s1.ns, "scale")))

\* Cell 317c99b2: the conversion.
Cell_317c99b2(k) ==
    LET n == k.ns
    IN  IF ~AllBound(n, {"unit_out", "mag_systems"})
        THEN Raise(k, "NameError")
        ELSE LET mag  == In(V(n, "unit_out"), V(n, "mag_systems"))
                 vega == IF mag /\ IsBound(n, "vegaspec") THEN V(n, "vegaspec") ELSE NoSpectrum
                 at   == SpecFlux(V(n, "scale_spec"), V(n, "wl_out"))
                 s1 == Stmt(Branch(k, IF mag THEN "mag" ELSE "else"),
                            {"convert_flux", "wl_out", "scale_spec", "unit_out"}
                                \cup (IF mag THEN {"vegaspec"} ELSE {}),
                            convert_flux_raises(at, V(n, "unit_out"), vega),
                            "flux_out", convert_flux(V(n, "wl_out"), at, V(n, "unit_out"), vega))
                 s2 == Stmt(s1, {"convert_flux", "wl_out", "scale_spec", "plot_unit"},
                            convert_flux_raises(at, V(n, "plot_unit"), NoSpectrum),
                            "plot_flux_out",
                            convert_flux(V(n, "wl_out"), at, V(n, "plot_unit"), NoSpectrum))
             IN  Stmt(s2, {"flux_out"}, "", "val_out", QNum(V(s2.ns, "flux_out")))

\* Cell 82c08695: print the input and the output.
Cell_82c08695(k) ==
    LET s1 == Expr(k, {"val_in", "unit_in", "wl_in"}, "")
        s2 == PrintStmt(s1, "Input:")
        s3 == Expr(s2, {"val_out", "unit_out", "wl_out"}, "")
    IN  PrintStmt(s3, "Input: Output:")

\* Cell 0b5f1e79: the wavelength range of the plot.  A left bound of 0 stands
\* for the 0.1 the cell puts there.
Cell_0b5f1e79(k) ==
    LET n  == k.ns
        s1 == Stmt(k, {"wl_in", "wl_out"}, "", "wl_settings",
                   <<V(n, "wl_in").value, V(n, "wl_out").value>>)
        ws == V(s1.ns, "wl_settings")
        s2 == Stmt(s1, {"wl_settings"}, "", "short", IF ws[1] < ws[2] THEN ws[1] ELSE ws[2])
        s3 == Stmt(s2, {"wl_settings"}, "", "long", IF ws[1] < ws[2] THEN ws[2] ELSE ws[1])
        sh == V(s3.ns, "short")
        lo == V(s3.ns, "long")
        s4 == Stmt(s3, {"short", "long"}, "", "diff", IF sh = lo THEN 10 ELSE lo - sh)
        s5 == Stmt(s4, {"long", "diff"}, "", "right", lo + V(s4.ns, "diff"))
        s6 == Stmt(s5, {"short", "diff"}, "", "left",
                   IF sh - V(s4.ns, "diff") > 0 THEN sh - V(s4.ns, "diff") ELSE 0)
    IN  Stmt(s6, {"np", "left", "right", "wl_unit"}, "", "waves",
             [left |-> V(s6.ns, "left"), right |-> V(s6.ns, "right"), unit |-> V(n, "wl_unit")])

\* Cell 358172e8: the colours of the markers.
Cell_358172e8(k) ==
    IF ~AllBound(k.ns, {"wl_in", "wl_out"}) THEN Raise(k, "NameError")
    ELSE LET red == V(k.ns, "wl_in").value > V(k.ns, "wl_out").value
             s1  == Stmt(k, {}, "", "c_in", IF red THEN "r" ELSE "b")
         IN  Stmt(s1, {}, "", "c_out", IF red THEN "b" ELSE "r")

\* Cell 8bea8f73: the plot.
Cell_8bea8f73(k) ==
    LET n  == k.ns
        s1 == Expr(k, {"plt", "waves", "scale_spec", "plot_unit"},
                   IF V(n, "plot_unit") \in FluxUnitNames THEN "" ELSE "UnitsError")
        s2 == Expr(s1, {"wl_in", "plot_flux_in", "c_in", "val_in", "unit_in"}, "")
        s3 == Expr(s2, {"wl_out", "plot_flux_out", "c_out", "val_out", "unit_out"}, "")
        s4 == Stmt(Stmt(s3, {"plt"}, "", "bottom", "float"), {"plt"}, "", "top", "float")
        s5 == Stmt(s4, {"top", "bottom"}, "", "yrange", "float")
        s6 == Stmt(s5, {"plot_flux_in", "bottom", "yrange"}, "", "inheight", "float")
        s7 == Stmt(s6, {"plot_flux_out", "bottom", "yrange"}, "", "outheight", "float")
    IN  Expr(s7, {"wl_in", "wl_out", "wl_unit", "c_in", "c_out", "plot_unit"}, "")

\* The six settings an example cell assigns first.
ExampleSettings(k, e) == Cell_3d477832(Cell_de540dfe(k, e), e)

Settings(val_in, unit_in, wl_bp_in, wl_unit, unit_out, wl_bp_out, spec) ==
    [val_in |-> val_in, unit_in |-> unit_in, wl_bp_in |-> wl_bp_in, wl_unit |-> wl_unit,
     unit_out |-> unit_out, wl_bp_out |-> wl_bp_out, spec |-> spec]

\* Cell fd8fe178, example 5.1: 3631 Jy at 550 nm to AB mag in Johnson V.
Cell_fd8fe178(k) ==
    PowerLawSnippet(ExampleSettings(k,
        Settings(890, "Jy", Number(550), "nm", "ABmag", Obsmode("Johnson, V"), "powerlaw")))

\* Cell 714bbeb1, example 5.2: 1.234e-8 flam at 500 nm to flam at 800 nm.
Cell_714bbeb1(k) ==
    BlackBodySnippet(ExampleSettings(k,
        Settings(0 - 1977, "FLAM", Number(500), "nm", "FLAM", Number(800), "blackbody")), 5800)

\* Cell 771c6282, example 5.3: 1.234e-21 fnu at 686 nm to photnu at 686 nm.
Cell_771c6282(k) ==
    BlackBodySnippet(ExampleSettings(k,
        Settings(0 - 5227, "FNU", Number(686), "nm", "PHOTNU", Number(686), "blackbody")), 5800)

\* Cell 7da9e44e, example 5.4: STmag 12.240 in F606W to STmag in Johnson V.
Cell_7da9e44e(k) ==
    LET s0 == ExampleSettings(k,
                  Settings(1224, "STmag", Obsmode("wfc3, uvis2, f606w, mjd#59367"), "nm",
                           "STmag", Obsmode("Johnson, V"), "powerlaw"))
        s1 == Stmt(s0, {}, "", "pl_index", 0)
        s2 == Stmt(s1, {"PowerLawFlux1D", "convert_flux", "u", "su", "pl_index"}, "", "model",
                   PowerLawFlux1D(
                       convert_flux(Wl(606, "nm"), Quantity(Fin(0), "PHOTLAM"), "FLAM", NoSpectrum),
                       Wl(606, "nm"), V(s1.ns, "pl_index")))
        s3 == Stmt(s2, {"SourceSpectrum", "model"}, "", "spec", V(s2.ns, "model"))
    IN  Stmt(s3, {"PowerLawFlux1D", "flux_in", "wl_in", "pl_index"}, "", "model",
             PowerLawFlux1D(V(s3.ns, "flux_in"), V(s3.ns, "wl_in"), V(s3.ns, "pl_index")))

(***************************************************************************)
(* The flux conversion notebook as a state machine                         *)
(***************************************************************************)

VARIABLES
    ns,       \* the kernel's namespace
    out,      \* what the last cell printed
    err,      \* the exception the last cell raised, "" for none
    br,       \* the branch the last cell took
    pc,       \* the last cell run, by its place in the notebook; 0 in a fresh kernel
    jumps,    \* how often the user left the top-to-bottom order
    edits,    \* what the user typed into the three cells of section 2.4
    environ,  \* os.environ: the environment variables of the kernel's process
    files,    \* the paths that exist on disk, relative to the working directory
    calls     \* the pipeline calls and shell commands made so far, in order

vars == <<ns, out, err, br, pc, jumps, edits, environ, files, calls>>

\* The environment variables the notebooks set.
EnvNames == {"CRDS_SERVER_URL", "CRDS_SERVER", "CRDS_PATH", "iref"}

\* The settings of section 2.4 as written: V = 0.0 in the Vega system to R.
DefaultSettings ==
    Settings(0, "VEGAMAG", Obsmode("johnson, v"), "nm",
             "VEGAMAG", Obsmode("cousins, r"), "vegaspec")

\* The input settings the user may type into cell de540dfe: a value, a unit
\* or magnitude system, a wavelength or bandpass to match, a wavelength unit.
\* 549 nm is the pivot wavelength of Johnson V.
InputChoices ==
    {<<0, un, Obsmode("johnson, v"), "nm">> : un \in MagUnitNames}
    \cup {<<250, "VEGAMAG", Obsmode("cousins, r"), "AA">>}
    \cup {<<0, un, Number(549), "nm">> : un \in {"Jy", "FLAM", "PHOTNU", "PHOTLAM"}}
    \cup {<<250, "FLAM", Number(500), "AA">>}
    \cup {<<0, "m", Number(549), "nm">>}

\* The output settings the user may type into cell 3d477832.
OutputChoices ==
    {<<un, Obsmode("johnson, v")>> : un \in MagUnitNames}
    \cup {<<"VEGAMAG", Obsmode("cousins, r")>>}
    \cup {<<un, Number(549)>> : un \in {"Jy", "FLAM", "PHOTNU", "PHOTLAM"}}
    \cup {<<"FLAM", Number(500)>>}
    \cup {<<"m", Number(549)>>}

\* What the user may type into section 2.4.
SettingsChoices ==
    {Settings(i[1], i[2], i[3], i[4], o[1], o[2], sp) :
        i \in InputChoices, o \in OutputChoices,
        sp \in {"vegaspec", "blackbody", "powerlaw"}}

FluxInit ==
    /\ ns = [x \in FluxNames |-> Unbound]
    /\ out = ""
    /\ err = ""
    /\ br = "-"
    /\ pc = 0
    /\ jumps = 0
    /\ edits \in SettingsChoices
    /\ environ = [x \in EnvNames |-> Unbound]
    /\ files = {}
    /\ calls = << >>

ExampleCells == 17..20

\* How often the user leaves the top-to-bottom order in one session.
MaxJumps == 2

\* The orders the notebook asks for: down the page; or, leaving that order, from
\* the imports or from a finished conversion to an example cell, from an example
\* cell to section 3, and from a finished conversion back to section 2.4.
CanRun(i) ==
    \/ pc = i - 1
    \/ /\ jumps < MaxJumps
       /\ \/ i \in ExampleCells /\ pc \in {4, 16} /\ pc # i - 1
          \/ i = 8 /\ pc \in ExampleCells
          \/ i = 5 /\ pc \in {16, 21}

Run(i, k) ==
    /\ CanRun(i)
    /\ \E x \in {k} :
          /\ ns' = x.ns
          /\ out' = x.out
          /\ err' = x.err
          /\ br' = x.br
    /\ pc' = i
    /\ jumps' = IF pc = i - 1 THEN jumps ELSE jumps + 1
    /\ UNCHANGED <<edits, environ, files, calls>>

\* One action for every code cell, in the order of the notebook.
Next ==
    \/ Run(1, Cell_7f440831(Kernel(ns)))
    \/ Run(2, Cell_comment(Kernel(ns)))               \* 528e42d3
    \/ Run(3, Cell_comment(Kernel(ns)))               \* f80d0021
    \/ Run(4, Cell_5e4bba39(Kernel(ns)))
    \/ Run(5, Cell_de540dfe(Kernel(ns), edits))
    \/ Run(6, Cell_3d477832(Kernel(ns), edits))
    \/ Run(7, Cell_b542e3c2(Kernel(ns), edits))
    \/ Run(8, Cell_1caf81ab(Kernel(ns)))
    \/ Run(9, Cell_5338d317(Kernel(ns)))
    \/ Run(10, Cell_5928f11f(Kernel(ns)))
    \/ Run(11, Cell_c747a9e6(Kernel(ns)))
    \/ Run(12, Cell_317c99b2(Kernel(ns)))
    \/ Run(13, Cell_82c08695(Kernel(ns)))
    \/ Run(14, Cell_0b5f1e79(Kernel(ns)))
    \/ Run(15, Cell_358172e8(Kernel(ns)))
    \/ Run(16, Cell_8bea8f73(Kernel(ns)))
    \/ Run(17, Cell_fd8fe178(Kernel(ns)))
    \/ Run(18, Cell_714bbeb1(Kernel(ns)))
    \/ Run(19, Cell_771c6282(Kernel(ns)))
    \/ Run(20, Cell_7da9e44e(Kernel(ns)))
    \/ Run(21, Cell_comment(Kernel(ns)))              \* f708c513

Spec == FluxInit /\ [][Next]_vars

(***************************************************************************)
(* Properties of the flux conversion notebook                              *)
(***************************************************************************)

\* The rule of the claims, on the unit alone.
RuleBranch(unit) ==
    IF unit \in {"STmag", "ABmag", "VEGAMAG"} THEN "mag"
    ELSE IF physical_type(unit) \in
                {"spectral flux density", "spectral flux density wav",
                 "photon flux density", "photon flux density wav"} THEN "flux"
    ELSE "print"

SetupBound(unit_name) == AllBound(ns, {unit_name, "mag_systems", "flux_systems"})

InMessage == "unit_in not a flux density unit or magnitude system"

OutMessage == "unit_out not a flux density unit or magnitude system"

\* C1: after the input setup (cell 5338d317) the branch taken is the one the
\* rule gives for unit_in, magnitude systems first, then the four flux density
\* types, then the print; and what the cell did is what that branch does and
\* not what the others do.  The output setup (cell 5928f11f) follows the same
\* rule for unit_out.
C1_ThreeWayBranch ==
    /\ (pc = 9 /\ SetupBound("unit_in")) =>
          /\ br = RuleBranch(V(ns, "unit_in"))
          /\ (br = "print") <=> (out = InMessage)
          /\ (br = "mag" /\ err = "") =>
                V(ns, "plot_unit") = "PHOTLAM" /\ V(ns, "mag_in") = V(ns, "quant_in")
          /\ (br = "flux" /\ err = "") =>
                V(ns, "plot_unit") = V(ns, "unit_in") /\ V(ns, "flux_in") = V(ns, "quant_in")
    /\ (pc = 10 /\ SetupBound("unit_out")) =>
          /\ br = RuleBranch(V(ns, "unit_out"))
          /\ (br = "print") <=> (out = OutMessage)
          /\ (br = "mag" /\ err = "") => V(ns, "band_out") = band(V(ns, "wl_bp_out"))
          /\ (br = "flux" /\ err = "") =>
                V(ns, "wl_out").value = V(ns, "wl_bp_out").num

\* C1 witness: an AB magnitude, whose physical type is a flux density type as
\* well, went down the magnitude branch.
C1_Witness ==
    /\ pc = 9 /\ SetupBound("unit_in") /\ V(ns, "unit_in") = "ABmag"
    /\ br = "mag" /\ err = ""

\* The names the claim says the print branch leaves alone.
InputSetupNames == {"wl_in", "flux_in", "plot_unit", "plot_flux_in"}

OutputSetupNames == {"wl_out", "band_out"}

\* C2: a run of the input setup with a unit_in that is neither a magnitude
\* system nor a flux density unit prints the message, raises nothing and
\* leaves wl_in, flux_in, plot_unit and plot_flux_in as they were; likewise
\* the output setup with unit_out, for wl_out and band_out.
C2_PrintBranchStep ==
    /\ (pc' = 9 /\ SetupBound("unit_in") /\ RuleBranch(V(ns, "unit_in")) = "print") =>
          /\ out' = InMessage
          /\ err' = ""
          /\ \A x \in InputSetupNames : ns'[x] = ns[x]
    /\ (pc' = 10 /\ SetupBound("unit_out") /\ RuleBranch(V(ns, "unit_out")) = "print") =>
          /\ out' = OutMessage
          /\ err' = ""
          /\ \A x \in OutputSetupNames : ns'[x] = ns[x]

C2_PrintBranch == [][C2_PrintBranchStep]_vars

\* C2 witness: the print branch of the input setup was taken in a kernel that
\* holds the wavelength and flux of an earlier conversion.
C2_Witness ==
    /\ pc = 9 /\ br = "print" /\ out = InMessage /\ err = ""
    /\ AllBound(ns, InputSetupNames)

\* C3: after the scaling cell (c747a9e6), when the spectrum is not zero at
\* wl_in, the scaled spectrum at wl_in is the input flux in PHOTLAM at wl_in.
C3_ScaledThroughInput ==
    (/\ pc = 11 /\ err = ""
     /\ SpecFlux(V(ns, "spec"), V(ns, "wl_in")).k = "fin")
    => SpecFlux(V(ns, "scale_spec"), V(ns, "wl_in"))
         = convert_flux(V(ns, "wl_in"), V(ns, "flux_in"), "PHOTLAM", NoSpectrum)

\* C3 witness: a spectrum was scaled by a factor other than one, the input
\* being a flux in a unit other than PHOTLAM.
C3_Witness ==
    /\ pc = 11 /\ err = ""
    /\ SpecFlux(V(ns, "spec"), V(ns, "wl_in")).k = "fin"
    /\ V(ns, "scale") # Fin(0)
    /\ V(ns, "flux_in").unit = "Jy"

\* Sections 3 and 4 up to the conversion, run on a namespace: cells 1caf81ab,
\* 5338d317, 5928f11f, c747a9e6 and 317c99b2 one after the other.  ok: no cell
\* raised and both units were recognised.
Sections34(n) ==
    LET a == Cell_1caf81ab(Kernel(n))
        b == Cell_5338d317(Kernel(a.ns))
        c == Cell_5928f11f(Kernel(b.ns))
        d == Cell_c747a9e6(Kernel(c.ns))
        e == Cell_317c99b2(Kernel(d.ns))
    IN  [ns |-> e.ns,
         ok |-> /\ \A k \in {a, b, c, d, e} : k.err = ""
                /\ b.br # "print" /\ c.br # "print"]

\* The namespace is what a clean run of sections 3 and 4 leaves of its settings.
CleanRun(n) ==
    /\ AllBound(n, {"val_in", "unit_in", "wl_bp_in", "wl_unit", "unit_out", "wl_bp_out",
                    "spec", "vegaspec", "band", "convert_flux", "u", "su"})
    /\ Sections34(n).ok
    /\ Sections34(n).ns = n

\* The spectra a second run may use.
OtherSpectra ==
    {VegaSpectrum, BlackBody1D(5800), BlackBody1D(5000),
     PowerLawFlux1D(Quantity(Fin(0), "FLAM"), Wl(606, "nm"), 0),
     PowerLawFlux1D(Quantity(Fin(890), "Jy"), Wl(550, "nm"), 0)}

\* C4: after a clean conversion with wl_in equal to wl_out, a second run of
\* sections 3 and 4 that differs only in the spectrum (not zero at wl_in
\* either) ends with the same val_out.
C4_SpectrumIrrelevant ==
    (/\ pc = 12 /\ err = "" /\ CleanRun(ns)
     /\ V(ns, "wl_in") = V(ns, "wl_out")
     /\ SpecFlux(V(ns, "spec"), V(ns, "wl_in")).k = "fin")
    => \A sp \in OtherSpectra :
          SpecFlux(sp, V(ns, "wl_in")).k = "fin" =>
             LET r == Sections34([ns EXCEPT !["spec"] = <<sp>>])
             IN  r.ok /\ V(r.ns, "val_out") = V(ns, "val_out")

\* C4 witness: a clean conversion at one wavelength, between different units,
\* with a second spectrum of another shape at hand.
C4_Witness ==
    /\ pc = 12 /\ err = "" /\ CleanRun(ns)
    /\ V(ns, "wl_in") = V(ns, "wl_out")
    /\ SpecFlux(V(ns, "spec"), V(ns, "wl_in")).k = "fin"
    /\ V(ns, "unit_in") # V(ns, "unit_out")
    /\ \E sp \in OtherSpectra :
          /\ SpecFlux(sp, V(ns, "wl_in")).k = "fin"
          /\ sp # V(ns, "spec")


\* What an example cell sets: an input, an output and a spectrum.
ExampleNames == {"val_in", "unit_in", "wl_bp_in", "wl_unit", "unit_out", "wl_bp_out", "spec"}

\* C5: an example cell run in a kernel where only the import cells have run
\* completes without error and binds val_in, unit_in, wl_bp_in, wl_unit,
\* unit_out, wl_bp_out and spec.
C5_ExampleStep ==
    (pc = 4 /\ jumps = 0 /\ pc' \in ExampleCells)
    => (err' = "" /\ AllBound(ns', ExampleNames))

C5_ExamplesSelfContained == [][C5_ExampleStep]_vars

\* The flux and the wavelength the input setup (cells 1caf81ab and 5338d317)
\* derives from the settings a namespace holds.
OwnInput(n) == Cell_5338d317(Kernel(Cell_1caf81ab(Kernel(n)).ns)).ns

\* C6: the spectrum example 5.1 builds is anchored at the flux and the
\* wavelength of the example's own input, 3631 Jy at 550 nm.
C6_AnchoredAtOwnInput ==
    (pc = 17 /\ err = "")
    => /\ V(ns, "spec").amp = V(OwnInput(ns), "flux_in")
       /\ V(ns, "spec").x_0 = V(OwnInput(ns), "wl_in")

\* C7: in a top-to-bottom run of a fresh kernel with the settings as written
\* no cell raises NameError, and flux_in and wl_in are bound when examples 5.1
\* and 5.4 read them.
C7_DocumentOrder ==
    (jumps = 0 /\ edits = DefaultSettings)
    => /\ err # "NameError"
       /\ pc \in {16, 17, 19, 20} => AllBound(ns, {"flux_in", "wl_in"})

\* C7 witness: the top-to-bottom run has reached the last cell, both examples
\* that read flux_in and wl_in having run.
C7_Witness ==
    /\ jumps = 0 /\ edits = DefaultSettings /\ pc = 21
    /\ AllBound(ns, {"flux_in", "wl_in", "model", "spec"})

\* C8: after the input setup wl_in is, for a magnitude, the pivot wavelength
\* of band(wl_bp_in) expressed in wl_unit and, for a flux, wl_bp_in times
\* wl_unit; after the output setup likewise wl_out from wl_bp_out.
C8_CharacteristicWavelength ==
    /\ (pc = 9 /\ err = "" /\ SetupBound("unit_in")) =>
          /\ RuleBranch(V(ns, "unit_in")) = "mag" =>
                /\ InAA(V(ns, "wl_in")) = InAA(pivot(band(V(ns, "wl_bp_in"))))
                /\ V(ns, "wl_in").unit = V(ns, "wl_unit")
          /\ RuleBranch(V(ns, "unit_in")) = "flux" =>
                /\ V(ns, "wl_in").value = V(ns, "wl_bp_in").num
                /\ V(ns, "wl_in").unit = V(ns, "wl_unit")
    /\ (pc = 10 /\ err = "" /\ SetupBound("unit_out")) =>
          /\ RuleBranch(V(ns, "unit_out")) = "mag" =>
                /\ InAA(V(ns, "wl_out")) = InAA(pivot(band(V(ns, "wl_bp_out"))))
                /\ V(ns, "wl_out").unit = V(ns, "wl_unit")
          /\ RuleBranch(V(ns, "unit_out")) = "flux" =>
                /\ V(ns, "wl_out").value = V(ns, "wl_bp_out").num
                /\ V(ns, "wl_out").unit = V(ns, "wl_unit")

\* C8 witness: a magnitude input in a band whose pivot wavelength was
\* converted from Angstrom to nm.
C8_Witness ==
    /\ pc = 9 /\ err = "" /\ SetupBound("unit_in")
    /\ RuleBranch(V(ns, "unit_in")) = "mag"
    /\ V(ns, "wl_unit") = "nm"
    /\ V(ns, "wl_in") = Wl(549, "nm")

\* C9: after the input setup, a flux input is plotted in its own unit and
\* flux_in is the input quantity; a magnitude input is plotted in PHOTLAM and
\* flux_in is the flux in PHOTLAM that is the input magnitude at wl_in.
C9_PlotUnitAndFlux ==
    (pc = 9 /\ err = "" /\ SetupBound("unit_in")) =>
       /\ RuleBranch(V(ns, "unit_in")) = "flux" =>
             /\ V(ns, "plot_unit") = V(ns, "unit_in")
             /\ V(ns, "flux_in") = Quantity(Fin(V(ns, "val_in")), V(ns, "unit_in"))
       /\ RuleBranch(V(ns, "unit_in")) = "mag" =>
             /\ V(ns, "plot_unit") = "PHOTLAM"
             /\ V(ns, "flux_in").unit = "PHOTLAM"
             /\ convert_flux(V(ns, "wl_in"), V(ns, "flux_in"), V(ns, "unit_in"),
                             V(ns, "vegaspec"))
                  = Quantity(Fin(V(ns, "val_in")), V(ns, "unit_in"))

\* C9 witness: the input setup has run on a flux in Jy.
C9_Witness ==
    /\ pc = 9 /\ err = "" /\ br = "flux"
    /\ V(ns, "unit_in") = "Jy"
    /\ V(ns, "plot_unit") = "Jy"

(***************************************************************************)
(* filter_transformations.ipynb                                            *)
(*                                                                         *)
(* Synthetic magnitudes are whole numbers of 1e-4 mag, one digit more than *)
(* the three decimals the table shows.                                     *)
(***************************************************************************)

FTNames ==
    {"os", "np", "pd", "plt", "u", "su", "syn", "Observation", "vegaspec", "stsyn", "band",
     "filts", "bb_temp", "model", "spec", "uvis1", "uvis2", "chips",
     "ABMAG", "STMAG", "VEGAMAG", "mags", "cols", "rows",
     "name", "_", "toggle", "pair", "filt_non", "filt_uvis", "filt_str", "i", "chip_str",
     "obsmode_non", "obsmode_uvis", "bp_non", "bp_uvis", "obs_non", "obs_uvis", "row",
     "unit", "effstim_non", "effstim_uvis", "color", "df",
     "fig", "axs", "f1", "f2", "bp1", "bp2"}

\* Observation(spec, bp)
Observation(spec, bp) == [spec |-> spec, bp |-> bp]

\* The ST magnitude of a spectrum through a bandpass: the Vega spectrum, a
\* 5800 K blackbody, a 5000 K blackbody.  The two chips differ in quantum
\* efficiency, so a filter's magnitude depends on the chip.
BandSTmag(sp, bp) ==
    LET b == bp.obsmode
    IN  CASE sp.kind = "vega" ->
               (CASE b = "johnson,v"        -> 200
                  [] b = "cousins,i"        -> 9836
                  [] b = "wfc3,uvis1,f555w" -> 0 - 559
                  [] b = "wfc3,uvis2,f555w" -> 0 - 551
                  [] b = "wfc3,uvis1,f606w" -> 1833
                  [] b = "wfc3,uvis2,f606w" -> 1825
                  [] b = "wfc3,uvis1,f814w" -> 10397
                  [] OTHER                  -> 10363)
          [] sp.kind = "bb" /\ sp.temp = 5800 ->
               (CASE b = "johnson,v"        -> 148409
                  [] b = "cousins,i"        -> 152814
                  [] b = "wfc3,uvis1,f555w" -> 148275
                  [] b = "wfc3,uvis2,f555w" -> 148276
                  [] b = "wfc3,uvis1,f606w" -> 148848
                  [] b = "wfc3,uvis2,f606w" -> 148845
                  [] b = "wfc3,uvis1,f814w" -> 153165
                  [] OTHER                  -> 153144)
          [] OTHER ->
               (CASE b = "johnson,v"        -> 156315
                  [] b = "cousins,i"        -> 158467
                  [] b = "wfc3,uvis1,f555w" -> 156447
                  [] b = "wfc3,uvis2,f555w" -> 156446
                  [] b = "wfc3,uvis1,f606w" -> 156245
                  [] b = "wfc3,uvis2,f606w" -> 156245
                  [] b = "wfc3,uvis1,f814w" -> 158727
                  [] OTHER                  -> 158711)

\* ABmag - STmag of a bandpass: 18.6921 - 5 log10(pivot wavelength / Angstrom)
ABminusST(bp) ==
    LET b == bp.obsmode
    IN  CASE b = "johnson,v"        -> 0 - 69
          [] b = "cousins,i"        -> 0 - 7936
          [] b = "wfc3,uvis1,f555w" -> 674
          [] b = "wfc3,uvis2,f555w" -> 666
          [] b = "wfc3,uvis1,f606w" -> 0 - 1581
          [] b = "wfc3,uvis2,f606w" -> 0 - 1574
          [] b = "wfc3,uvis1,f814w" -> 0 - 8339
          [] OTHER                  -> 0 - 8315

\* Observation.effstim(flux_unit=unit, vegaspec=vegaspec) for a magnitude
\* system: a magnitude in the Vega system is the magnitude relative to Vega's
\* through the same bandpass.
effstim(obs, flux_unit, vegaspec) ==
    [value |-> CASE flux_unit = "STmag" -> BandSTmag(obs.spec, obs.bp)
                 [] flux_unit = "ABmag" -> BandSTmag(obs.spec, obs.bp) + ABminusST(obs.bp)
                 [] OTHER -> BandSTmag(obs.spec, obs.bp) - BandSTmag(vegaspec, obs.bp),
     unit |-> flux_unit]

\* Three digits of a number below 1000, zeros in front
Pad3(n) ==
    IF n < 10 THEN "00" \o ToString(n)
    ELSE IF n < 100 THEN "0" \o ToString(n)
    ELSE ToString(n)

\* '{:.3f}'.format(x), x in 1e-4: the nearest thousandth, a tie to the even one
Format3(x) ==
    LET a  == IF x < 0 THEN 0 - x ELSE x
        q  == a \div 10
        r  == a % 10
        t  == IF r > 5 \/ (r = 5 /\ q % 2 = 1) THEN q + 1 ELSE q
    IN  (IF x < 0 THEN "-" ELSE "") \o ToString(t \div 1000) \o "." \o Pad3(t % 1000)

\* Cell f014a9e2: the imports, and the Vega spectrum.
Cell_f014a9e2(k) ==
    LET s1 == Stmt(k, {}, "", "os", "module")
        s2 == Stmt(s1, {}, "", "np", "module")
        s3 == Stmt(s2, {}, "", "pd", "module")
        s4 == Stmt(s3, {}, "", "plt", "module")
        s5 == Stmt(s4, {}, "", "u", "module")
        s6 == Stmt(s5, {}, "", "su", "module")
        s7 == Stmt(s6, {}, "", "syn", "module")
        s8 == Stmt(s7, {}, "", "Observation", "class")
    IN  Stmt(s8, {"syn"}, "", "vegaspec", VegaSpectrum)

\* Cell 59b75282: import stsynphot.
Cell_59b75282(k) ==
    Stmt(Stmt(k, {}, "", "stsyn", "module"), {}, "", "band", "function")

\* Cell 9b40d583: the filter pairs, non-HST filter first.
Cell_9b40d583(k, e) == Stmt(k, {}, "", "filts", e.filts)

\* Cell 64bf3cdc: the spectrum, a blackbody as written or the Vega spectrum.
Cell_64bf3cdc(k, e) ==
    IF e.spec = "vegaspec" THEN Stmt(k, {"vegaspec"}, "", "spec", V(k.ns, "vegaspec"))
    ELSE LET s1 == Stmt(k, {"u"}, "", "bb_temp", e.bb_temp)
             s2 == Stmt(s1, {"syn", "bb_temp"}, "", "model", BlackBody1D(V(s1.ns, "bb_temp")))
         IN  Stmt(s2, {"syn", "model"}, "", "spec", V(s2.ns, "model"))

\* Cell 55a83fe6: the chips.
Cell_55a83fe6(k, e) ==
    LET s1 == Stmt(k, {}, "", "uvis1", e.uvis1)
        s2 == Stmt(s1, {}, "", "uvis2", e.uvis2)
    IN  Stmt(s2, {"uvis1", "uvis2"}, "", "chips", <<V(s2.ns, "uvis1"), V(s2.ns, "uvis2")>>)

\* Cell 57cc10d1: the magnitude systems.
Cell_57cc10d1(k, e) ==
    LET s1 == Stmt(k, {}, "", "ABMAG", e.ABMAG)
        s2 == Stmt(s1, {}, "", "STMAG", e.STMAG)
        s3 == Stmt(s2, {}, "", "VEGAMAG", e.VEGAMAG)
    IN  Stmt(s3, {"u", "su", "ABMAG", "STMAG", "VEGAMAG"}, "", "mags",
             << <<"ABMAG", "ABmag", V(s3.ns, "ABMAG")>>,
                <<"STMAG", "STmag", V(s3.ns, "STMAG")>>,
                <<"VEGAMAG", "VEGAMAG", V(s3.ns, "VEGAMAG")>> >>)

\* Cell 6d5b3050: the first two column names, and no rows.
Cell_6d5b3050(k) ==
    Stmt(Stmt(k, {}, "", "cols", <<"Filters", "Chip">>), {}, "", "rows", << >>)

\* Cell f1f99d2a: a column for every magnitude system switched on.
RECURSIVE ColsLoop(_, _, _)
ColsLoop(k, mags, j) ==
    Once({IF x.err # "" \/ j > Len(mags) THEN x
          ELSE LET s1 == Stmt(x, {}, "", "name", mags[j][1])
                   s2 == Stmt(s1, {}, "", "_", mags[j][2])
                   s3 == Stmt(s2, {}, "", "toggle", mags[j][3])
                   s4 == Once({IF V(y.ns, "toggle")
                               THEN Once({Stmt(z, {"cols", "name"}, "", "cols",
                                               Append(V(z.ns, "cols"), "d_" \o V(z.ns, "name")))
                                          : z \in {y}})
                               ELSE y : y \in {s3}})
               IN  ColsLoop(s4, mags, j + 1) : x \in {k}})

\* Cell f1f99d2a without `if toggle`: a column for every magnitude system.
Cell_f1f99d2a_NoToggle(k) ==
    IF ~IsBound(k.ns, "mags") THEN Raise(k, "NameError")
    ELSE ColsLoop(k, [j \in 1..Len(V(k.ns, "mags")) |->
                        <<V(k.ns, "mags")[j][1], V(k.ns, "mags")[j][2], TRUE>>], 1)

Cell_f1f99d2a(k) ==
    IF ~IsBound(k.ns, "mags") THEN Raise(k, "NameError")
    ELSE ColsLoop(k, V(k.ns, "mags"), 1)

\* 'uvis' + str(i + 1)
ChipStr(i) == "uvis" \o ToString(i + 1)

\* 'wfc3, ' + chip_str + ', ' + filt_uvis
ObsmodeUvis(chip_str, filt_uvis) == "wfc3, " \o chip_str \o ", " \o filt_uvis

\* ColorTerm with the difference the other way round.
ColorTerm_Swapped(effstim_non, effstim_uvis) ==
    [value |-> effstim_uvis.value - effstim_non.value, unit |-> "mag"]

\* effstim_non - effstim_uvis
ColorTerm(effstim_non, effstim_uvis) ==
    [value |-> effstim_non.value - effstim_uvis.value, unit |-> "mag"]

\* Cell 4b9a7577, the body of the loop over the magnitude systems: the colour
\* term in one system, appended to row.
MagsBody(k) ==
    LET s1 == Once({Stmt(z, {"obs_non", "unit", "vegaspec"}, "", "effstim_non",
                         effstim(V(z.ns, "obs_non"), V(z.ns, "unit"), V(z.ns, "vegaspec")))
                    : z \in {k}})
        s2 == Once({Stmt(z, {"obs_uvis", "unit", "vegaspec"}, "", "effstim_uvis",
                         effstim(V(z.ns, "obs_uvis"), V(z.ns, "unit"), V(z.ns, "vegaspec")))
                    : z \in {s1}})
        s3 == Once({Stmt(z, {"effstim_non", "effstim_uvis"}, "", "color",
                         ColorTerm(V(z.ns, "effstim_non"), V(z.ns, "effstim_uvis")))
                    : z \in {s2}})
    IN  Once({Stmt(z, {"row", "color"}, "", "row",
                   Append(V(z.ns, "row"), Format3(V(z.ns, "color").value)))
              : z \in {s3}})

\* Cell 4b9a7577, the loop over the magnitude systems: a colour term for
\* every system switched on.
RECURSIVE MagsLoop(_, _, _)
MagsLoop(k, mags, j) ==
    Once({IF x.err # "" \/ j > Len(mags) THEN x
          ELSE LET s1 == Stmt(x, {}, "", "name", mags[j][1])
                   s2 == Stmt(s1, {}, "", "unit", mags[j][2])
                   s3 == Stmt(s2, {}, "", "toggle", mags[j][3])
                   s4 == Once({IF V(y.ns, "toggle") THEN MagsBody(y) ELSE y : y \in {s3}})
               IN  MagsLoop(s4, mags, j + 1) : x \in {k}})

\* ChipsBody with the chip's flag read again after the loop over the
\* magnitude systems, which binds the same name toggle.
ChipsBody_ToggleAfterMags(k) ==
    LET s1 == Once({Stmt(z, {"i"}, "", "chip_str", ChipStr(V(z.ns, "i"))) : z \in {k}})
        s2 == Once({Stmt(z, {"filt_non"}, "", "obsmode_non", V(z.ns, "filt_non")) : z \in {s1}})
        s3 == Once({Stmt(z, {"chip_str", "filt_uvis"}, "", "obsmode_uvis",
                         ObsmodeUvis(V(z.ns, "chip_str"), V(z.ns, "filt_uvis")))
                    : z \in {s2}})
        s4 == Once({Stmt(z, {"band", "obsmode_non"}, "", "bp_non",
                         band(Obsmode(V(z.ns, "obsmode_non"))))
                    : z \in {s3}})
        s5 == Once({Stmt(z, {"band", "obsmode_uvis"}, "", "bp_uvis",
                         band(Obsmode(V(z.ns, "obsmode_uvis"))))
                    : z \in {s4}})
        s6 == Once({Stmt(z, {"Observation", "spec", "bp_non"}, "", "obs_non",
                         Observation(V(z.ns, "spec"), V(z.ns, "bp_non")))
                    : z \in {s5}})
        s7 == Once({Stmt(z, {"Observation", "spec", "bp_uvis"}, "", "obs_uvis",
                         Observation(V(z.ns, "spec"), V(z.ns, "bp_uvis")))
                    : z \in {s6}})
        s8 == Once({Stmt(z, {"filt_str", "chip_str"}, "", "row",
                         <<V(z.ns, "filt_str"), V(z.ns, "chip_str")>>)
                    : z \in {s7}})
        s9 == Once({IF y.err # "" THEN y
                    ELSE IF ~IsBound(y.ns, "mags") THEN Raise(y, "NameError")
                    ELSE MagsLoop(y, V(y.ns, "mags"), 1) : y \in {s8}})
    IN  Once({IF z.err = "" /\ ~V(z.ns, "toggle") THEN z
              ELSE Stmt(z, {"rows", "row"}, "", "rows",
                        Append(V(z.ns, "rows"), V(z.ns, "row")))
              : z \in {s9}})

\* Cell 4b9a7577, the body of the loop over the chips: the row of one chip.
ChipsBody(k) ==
    LET s1 == Once({Stmt(z, {"i"}, "", "chip_str", ChipStr(V(z.ns, "i"))) : z \in {k}})
        s2 == Once({Stmt(z, {"filt_non"}, "", "obsmode_non", V(z.ns, "filt_non")) : z \in {s1}})
        s3 == Once({Stmt(z, {"chip_str", "filt_uvis"}, "", "obsmode_uvis",
                         ObsmodeUvis(V(z.ns, "chip_str"), V(z.ns, "filt_uvis")))
                    : z \in {s2}})
        s4 == Once({Stmt(z, {"band", "obsmode_non"}, "", "bp_non",
                         band(Obsmode(V(z.ns, "obsmode_non"))))
                    : z \in {s3}})
        s5 == Once({Stmt(z, {"band", "obsmode_uvis"}, "", "bp_uvis",
                         band(Obsmode(V(z.ns, "obsmode_uvis"))))
                    : z \in {s4}})
        s6 == Once({Stmt(z, {"Observation", "spec", "bp_non"}, "", "obs_non",
                         Observation(V(z.ns, "spec"), V(z.ns, "bp_non")))
                    : z \in {s5}})
        s7 == Once({Stmt(z, {"Observation", "spec", "bp_uvis"}, "", "obs_uvis",
                         Observation(V(z.ns, "spec"), V(z.ns, "bp_uvis")))
                    : z \in {s6}})
        s8 == Once({Stmt(z, {"filt_str", "chip_str"}, "", "row",
                         <<V(z.ns, "filt_str"), V(z.ns, "chip_str")>>)
                    : z \in {s7}})
        s9 == Once({IF y.err # "" THEN y
                    ELSE IF ~IsBound(y.ns, "mags") THEN Raise(y, "NameError")
                    ELSE MagsLoop(y, V(y.ns, "mags"), 1) : y \in {s8}})
    IN  Once({Stmt(z, {"rows", "row"}, "", "rows",
                   Append(V(z.ns, "rows"), V(z.ns, "row")))
              : z \in {s9}})

\* Cell 4b9a7577, the loop over the chips: a row for every chip switched on.
RECURSIVE ChipsLoop(_, _, _)
ChipsLoop(k, chips, i) ==
    Once({IF x.err # "" \/ i >= Len(chips) THEN x
          ELSE LET s1 == Stmt(x, {}, "", "i", i)
                   s2 == Stmt(s1, {}, "", "toggle", chips[i + 1])
                   s3 == Once({IF V(y.ns, "toggle") THEN ChipsBody(y) ELSE y : y \in {s2}})
               IN  ChipsLoop(s3, chips, i + 1) : x \in {k}})

\* Cell 4b9a7577, the loop over the filter pairs.
RECURSIVE PairsLoop(_, _, _)
PairsLoop(k, filts, p) ==
    Once({IF x.err # "" \/ p > Len(filts) THEN x
          ELSE LET s1 == Stmt(x, {}, "", "pair", filts[p])
                   s2 == Once({Stmt(z, {"pair"}, "", "filt_non",
                                    V(z.ns, "pair")[1])
                               : z \in {s1}})
                   s3 == Once({Stmt(z, {"pair"}, "", "filt_uvis",
                                    V(z.ns, "pair")[2])
                               : z \in {s2}})
                   s4 == Once({Stmt(z, {"filt_non", "filt_uvis"}, "", "filt_str",
                                    V(z.ns, "filt_non") \o " - " \o V(z.ns, "filt_uvis"))
                               : z \in {s3}})
                   s5 == Once({IF y.err # "" THEN y
                               ELSE IF ~IsBound(y.ns, "chips") THEN Raise(y, "NameError")
                               ELSE ChipsLoop(y, V(y.ns, "chips"), 0) : y \in {s4}})
               IN  PairsLoop(s5, filts, p + 1) : x \in {k}})

\* Cell 4b9a7577: the rows of the table.
Cell_4b9a7577(k) ==
    IF ~IsBound(k.ns, "filts") THEN Raise(k, "NameError")
    ELSE PairsLoop(k, V(k.ns, "filts"), 1)

\* pd.DataFrame(rows, columns=cols) raises when a row has not one entry for
\* every column.
DataFrame_raises(rows, cols) ==
    IF \E r \in 1..Len(rows) : Len(rows[r]) # Len(cols) THEN "ValueError" ELSE ""

\* Cell bafd58e3: the table.
Cell_bafd58e3(k) ==
    LET s1 == Stmt(k, {"pd", "rows", "cols"},
                   DataFrame_raises(V(k.ns, "rows"), V(k.ns, "cols")),
                   "df", [columns |-> V(k.ns, "cols"), data |-> V(k.ns, "rows")])
    IN  Expr(s1, {"df"}, "")

\* Cell af690657, the loop over the filter pairs: the bandpasses plotted.
RECURSIVE PlotLoop(_, _, _)
PlotLoop(k, filts, p) ==
    Once({IF x.err # "" \/ p > Len(filts) THEN x
          ELSE LET s1 == Stmt(x, {}, "", "i", p - 1)
                   s2 == Stmt(s1, {}, "", "pair", filts[p])
                   s3 == Once({Stmt(z, {"pair"}, "", "f1", V(z.ns, "pair")[1]) : z \in {s2}})
                   s4 == Once({Stmt(z, {"pair"}, "", "f2", V(z.ns, "pair")[2]) : z \in {s3}})
                   s5 == Once({Stmt(z, {"band", "f1"}, "", "bp1",
                                    band(Obsmode(V(z.ns, "f1"))))
                               : z \in {s4}})
                   s6 == Once({Stmt(z, {"band", "f2"}, "", "bp2",
                                    band(Obsmode("wfc3, uvis1," \o V(z.ns, "f2"))))
                               : z \in {s5}})
                   s7 == Expr(s6, {"bp1", "bp2", "u", "np", "spec", "axs", "i", "f1", "f2"}, "")
               IN  PlotLoop(s7, filts, p + 1) : x \in {k}})

\* Cell af690657: one subplot for every filter pair.  plt.subplots(1, 1)
\* returns a single Axes, which has no [0].
Cell_af690657(k) ==
    LET s1 == Stmt(k, {"plt", "filts"}, "", "fig", "Figure")
        s2 == Once({Stmt(z, {}, "", "axs",
                         IF Len(V(z.ns, "filts")) = 1 THEN "Axes" ELSE "ndarray")
                    : z \in {s1}})
        s3 == Once({Expr(y, {"axs"}, IF V(y.ns, "axs") = "Axes" THEN "TypeError" ELSE "")
                      : y \in {s2}})
        s4 == Once({IF y.err # "" THEN y
                    ELSE IF ~IsBound(y.ns, "filts") THEN Raise(y, "NameError")
                    ELSE PlotLoop(y, V(y.ns, "filts"), 1) : y \in {s3}})
    IN  Expr(s4, {"plt"}, "")

(***************************************************************************)
(* The filter transformations notebook as a state machine                  *)
(***************************************************************************)

FTSettings(filts, spec, bb_temp, uvis1, uvis2, ab, st, vega) ==
    [filts |-> filts, spec |-> spec, bb_temp |-> bb_temp, uvis1 |-> uvis1, uvis2 |-> uvis2,
     ABMAG |-> ab, STMAG |-> st, VEGAMAG |-> vega]

\* The settings of sections 2 to 5 as written: V and I against F555W and
\* F814W, a 5000 K blackbody, both chips, AB and ST magnitudes.
FTDefaultSettings ==
    FTSettings(<< <<"johnson, v", "f555w">>, <<"cousins, i", "f814w">> >>,
               "blackbody", 5000, TRUE, TRUE, TRUE, TRUE, FALSE)

\* What the user may type into sections 2 to 5.
FTSettingsChoices ==
    {FTSettings(f, sp[1], sp[2], c1, c2, ab, st, vega) :
        f \in {FTDefaultSettings.filts, << <<"johnson, v", "f606w">> >>},
        sp \in {<<"blackbody", 5000>>, <<"blackbody", 5800>>, <<"vegaspec", 0>>},
        c1 \in BOOLEAN, c2 \in BOOLEAN, ab \in BOOLEAN, st \in BOOLEAN, vega \in BOOLEAN}

FTInit ==
    /\ ns = [x \in FTNames |-> Unbound]
    /\ out = ""
    /\ err = ""
    /\ br = "-"
    /\ pc = 0
    /\ jumps = 0
    /\ edits \in FTSettingsChoices
    /\ environ = [x \in EnvNames |-> Unbound]
    /\ files = {}
    /\ calls = << >>

\* The orders of the cells: down the page; or, leaving that order, from the
\* table or from the end of the notebook back to one of the three cells of
\* section 6 that build the table.
FTCanRun(i) ==
    \/ pc = i - 1
    \/ /\ jumps < MaxJumps
       /\ i \in {9, 10, 11}
       /\ pc \in {12, 15}

FTRun(i, k) ==
    /\ FTCanRun(i)
    /\ \E x \in {k} :
          /\ ns' = x.ns
          /\ out' = x.out
          /\ err' = x.err
          /\ br' = x.br
    /\ pc' = i
    /\ jumps' = IF pc = i - 1 THEN jumps ELSE jumps + 1
    /\ UNCHANGED <<edits, environ, files, calls>>

\* One action for every code cell, in the order of the notebook.
NextFT ==
    \/ FTRun(1, Cell_f014a9e2(Kernel(ns)))
    \/ FTRun(2, Cell_comment(Kernel(ns)))             \* ad199734
    \/ FTRun(3, Cell_comment(Kernel(ns)))             \* 5eb68a42
    \/ FTRun(4, Cell_59b75282(Kernel(ns)))
    \/ FTRun(5, Cell_9b40d583(Kernel(ns), edits))
    \/ FTRun(6, Cell_64bf3cdc(Kernel(ns), edits))
    \/ FTRun(7, Cell_55a83fe6(Kernel(ns), edits))
    \/ FTRun(8, Cell_57cc10d1(Kernel(ns), edits))
    \/ FTRun(9, Cell_6d5b3050(Kernel(ns)))
    \/ FTRun(10, Cell_f1f99d2a(Kernel(ns)))
    \/ FTRun(11, Cell_4b9a7577(Kernel(ns)))
    \/ FTRun(12, Cell_bafd58e3(Kernel(ns)))
    \/ FTRun(13, Cell_comment(Kernel(ns)))            \* 46610393
    \/ FTRun(14, Cell_af690657(Kernel(ns)))
    \/ FTRun(15, Cell_comment(Kernel(ns)))            \* d78e54fe

SpecFT == FTInit /\ [][NextFT]_vars

(***************************************************************************)
(* Properties of the filter transformations notebook                       *)
(***************************************************************************)

\* The magnitude systems switched on, in the order of mags.
EnabledUnits(n) ==
    LET m == V(n, "mags")
    IN  SelectSeq(<<m[1], m[2], m[3]>>, LAMBDA t : t[3])

\* The magnitude of the kernel's spectrum through a bandpass in a system.
MagIn(n, obsmode, unit) ==
    effstim(Observation(V(n, "spec"), band(Obsmode(obsmode))), unit, V(n, "vegaspec")).value

\* The row is the row of filter pair p on chip c: every colour term in it is
\* what '{:.3f}' makes of the magnitude in the non-HST filter minus the
\* magnitude in the UVIS filter on chip c, in the system of its place.
RowOf(n, row, p, c) ==
    LET on == EnabledUnits(n)
    IN  /\ row[1] = p[1] \o " - " \o p[2]
        /\ row[2] = c
        /\ Len(row) = 2 + Len(on)
        /\ \A j \in 1..Len(on) :
              row[2 + j] = Format3(MagIn(n, p[1], on[j][2])
                                   - MagIn(n, "wfc3, " \o c \o ", " \o p[2], on[j][2]))

\* C10: after the row loop (cell 4b9a7577) every row of the table holds, for
\* its filter pair and its chip, the magnitude in the non-HST filter minus
\* the magnitude in the UVIS filter on that chip, same spectrum, same system.
C10_ColourTerms ==
    (pc = 11 /\ err = "" /\ AllBound(ns, {"rows", "spec", "vegaspec"}))
    => \A r \in 1..Len(V(ns, "rows")) :
          \E p \in 1..Len(V(ns, "filts")), c \in {"uvis1", "uvis2"} :
             RowOf(ns, V(ns, "rows")[r], V(ns, "filts")[p], c)

\* C10 witness: the table has rows for both chips with a colour term that
\* differs between the chips and is not zero.
C10_Witness ==
    /\ pc = 11 /\ err = "" /\ IsBound(ns, "rows")
    /\ Len(V(ns, "rows")) >= 2
    /\ Len(V(ns, "rows")[1]) >= 3
    /\ V(ns, "rows")[1][2] = "uvis1"
    /\ V(ns, "rows")[2][2] = "uvis2"
    /\ V(ns, "rows")[1][3] # V(ns, "rows")[2][3]
    /\ V(ns, "rows")[1][3] \notin {"0.000", "-0.000"}

\* The places in chips of the chips switched on, first place first.
EnabledChips(chips) == SelectSeq(<<1, 2>>, LAMBDA c : chips[c])

\* The filter text and the chip label of the rows that the row loop is to
\* add: for every filter pair in turn, one row for every chip switched on,
\* 'uvis1' for the first place of chips and 'uvis2' for the second.
ExpectedLabels(filts, chips) ==
    LET on == EnabledChips(chips)
        n  == Len(on)
    IN  [r \in 1..(Len(filts) * n) |->
            LET pair == filts[((r - 1) \div n) + 1]
                c    == on[((r - 1) % n) + 1]
            IN  <<pair[1] \o " - " \o pair[2], IF c = 1 THEN "uvis1" ELSE "uvis2">>]

C11_RowLoopStep ==
    (pc' = 11 /\ AllBound(ns, {"filts", "chips", "rows"}) /\ V(ns, "rows") = << >>)
    => LET exp  == ExpectedLabels(V(ns, "filts"), V(ns, "chips"))
           rows == V(ns', "rows")
       IN  /\ err' = ""
           /\ Len(rows) = Len(exp)
           /\ \A r \in 1..Len(exp) : <<rows[r][1], rows[r][2]>> = exp[r]

\* C11: run on an empty rows list, the row loop (cell 4b9a7577) ends without
\* an exception and leaves exactly one row for every filter pair and every
\* chip whose own flag is True, ordered by pair and then by chip, labelled
\* 'uvis1' for the first flag of chips and 'uvis2' for the second; a chip
\* whose flag is False has no row, whatever the flags of the magnitude
\* systems, although the loop over the systems binds the name toggle again.
C11_OneRowPerPairAndChip == [][C11_RowLoopStep]_vars

\* C11 witness: the first chip is off and the second is on, the last
\* magnitude system is off, so the loop over the systems has left toggle
\* False; every filter pair has its one row, labelled 'uvis2'.
C11_Witness ==
    /\ pc = 11 /\ jumps = 0 /\ err = ""
    /\ V(ns, "chips") = <<FALSE, TRUE>>
    /\ V(ns, "ABMAG") /\ ~V(ns, "VEGAMAG") /\ ~V(ns, "toggle")
    /\ Len(V(ns, "filts")) = 2
    /\ Len(V(ns, "rows")) = 2
    /\ V(ns, "rows")[1][2] = "uvis2" /\ V(ns, "rows")[2][2] = "uvis2"
    /\ Len(V(ns, "rows")[1]) >= 3

\* The names of the magnitude systems in the order of cell 57cc10d1, each
\* the name of its flag.
SystemNames == <<"ABMAG", "STMAG", "VEGAMAG">>

\* The unit cell 57cc10d1 gives to a magnitude system.
SystemUnit(name) ==
    CASE name = "ABMAG" -> "ABmag"
      [] name = "STMAG" -> "STmag"
      [] OTHER          -> "VEGAMAG"

\* The column names for the flags of the kernel: 'Filters', 'Chip', and
\* 'd_<name>' for the systems whose flag is True.
ExpectedCols(n) ==
    LET on == SelectSeq(SystemNames, LAMBDA name : V(n, name))
    IN  <<"Filters", "Chip">> \o [j \in 1..Len(on) |-> "d_" \o on[j]]

\* The system of a colour-term column: the name after 'd_'.
ColumnSystem(col) == CHOOSE name \in {"ABMAG", "STMAG", "VEGAMAG"} : col = "d_" \o name

\* Every entry of the row after the first two is the colour term of the
\* row's filter pair and chip in the system of the column it stands under.
EntriesUnderColumns(n, row, cols) ==
    \E p \in 1..Len(V(n, "filts")) :
       LET pair == V(n, "filts")[p]
       IN  /\ row[1] = pair[1] \o " - " \o pair[2]
           /\ \A j \in 3..Len(cols) :
                 row[j] = Format3(MagIn(n, pair[1], SystemUnit(ColumnSystem(cols[j])))
                                  - MagIn(n, "wfc3, " \o row[2] \o ", " \o pair[2],
                                          SystemUnit(ColumnSystem(cols[j]))))

\* C12: in the run once down the page, for every combination of chip and
\* system flags: from cell f1f99d2a on, cols is 'Filters', 'Chip' and a
\* column 'd_<name>' for exactly the systems whose flag is True, in the order
\* ABMAG, STMAG, VEGAMAG; from the row loop on, every row has one entry for
\* every column name, 2 plus the number of systems switched on, each colour
\* term under the column of the system it was computed in; and cell bafd58e3
\* builds the table of these columns and rows without an exception.
C12_ColumnsAndRows ==
    (jumps = 0 /\ pc \in 10..15)
    => /\ IsBound(ns, "cols")
       /\ V(ns, "cols") = ExpectedCols(ns)
       /\ Len(V(ns, "cols")) = 2 + Cardinality({name \in {"ABMAG", "STMAG", "VEGAMAG"} : V(ns, name)})
       /\ pc = 11 => err = ""
       /\ pc >= 11 =>
             \A r \in 1..Len(V(ns, "rows")) :
                /\ Len(V(ns, "rows")[r]) = Len(V(ns, "cols"))
                /\ EntriesUnderColumns(ns, V(ns, "rows")[r], V(ns, "cols"))
       /\ pc = 12 => err = ""
       /\ pc >= 12 => /\ IsBound(ns, "df")
                      /\ V(ns, "df").columns = V(ns, "cols")
                      /\ V(ns, "df").data = V(ns, "rows")

\* C12 witness: the first system is off and the other two are on; the table
\* is built with the columns d_STMAG and d_VEGAMAG, and the two colour terms
\* of its first row differ.
C12_Witness ==
    /\ pc = 12 /\ jumps = 0 /\ err = ""
    /\ ~V(ns, "ABMAG") /\ V(ns, "STMAG") /\ V(ns, "VEGAMAG")
    /\ V(ns, "df").columns = <<"Filters", "Chip", "d_STMAG", "d_VEGAMAG">>
    /\ Len(V(ns, "df").data) = 4
    /\ Len(V(ns, "df").data[1]) = 4
    /\ V(ns, "df").data[1][3] # V(ns, "df").data[1][4]

(***************************************************************************)
(* dash.ipynb                                                              *)
(*                                                                         *)
(* The notebook sequences the calls of the reduce_dash pipeline and reads  *)
(* the files the pipeline writes.  Besides the namespace, a cell acts on   *)
(* the environment variables, on the files on disk and on the log of the   *)
(* pipeline calls and shell commands; the kernel of a cell carries them.   *)
(* What a pipeline method writes is taken from the notebook's text and     *)
(* from the paths the notebook reads afterwards.                           *)
(***************************************************************************)

DashNames ==
    {"os", "glob", "np", "plt", "fits", "Table", "ascii", "Observations", "astrodrizzle",
     "DashData", "obsTable", "product_list", "BM", "myID", "download", "localpathtofile",
     "original_ima", "original_flt", "nsamp", "fig", "axarr", "i", "row", "col", "immed",
     "stdev", "ima_files", "file", "command_line_input", "myDash", "ndiff", "diff_i",
     "asn_filename", "asn_table", "rootname", "segmap_name", "segmap", "sourcelist_name",
     "sourcelist", "diffpath", "cat_images", "sc_diff_files", "shift_file",
     "shift_file_name", "shift_tab", "formats", "sci_name", "og_flt_name", "sci", "og_flt",
     "ax1", "ax2"}

\* The rootnames of the exposures of visit IDNM0J030 that the first product
\* of the list may be.
DashRoots == {"idnm0jaaq", "idnm0jabq"}

\* The kernel at the start of a cell, with the process's environment, the
\* disk and the log.
DashKernel(n, e, f, c) ==
    [ns |-> n, out |-> "", err |-> "", br |-> "-", environ |-> e, files |-> f, calls |-> c]

\* Two digits of a number below 100
Pad2(n) == IF n < 10 THEN "0" \o ToString(n) ELSE ToString(n)

\* fits.open(name), fits.getdata(name), ascii.read(name), Table.read(name)
open_raises(k, name) == IF name \in k.files THEN "" ELSE "FileNotFoundError"

\* A call that acts outside the kernel: it is logged, and the files it writes
\* are on disk afterwards.
Call(k, reads, call, astrodriz, written) ==
    Once({IF x.err # "" THEN x
          ELSE IF ~AllBound(x.ns, reads) THEN [x EXCEPT !.err = "NameError"]
          ELSE [x EXCEPT !.calls = Append(@, [call |-> call, astrodriz |-> astrodriz]),
                         !.files = @ \cup written] : x \in {k}})

\* Cell at line 71: the imports.
Cell_Imports(k) ==
    LET s1 == Stmt(k, {}, "", "os", "module")
        s2 == Stmt(s1, {}, "", "glob", "function")
        s3 == Stmt(s2, {}, "", "np", "module")
        s4 == Stmt(s3, {}, "", "plt", "module")
        s5 == Stmt(s4, {}, "", "fits", "module")
        s6 == Stmt(s5, {}, "", "Table", "class")
        s7 == Stmt(s6, {}, "", "ascii", "module")
        s8 == Stmt(s7, {}, "", "Observations", "class")
        s9 == Stmt(s8, {}, "", "astrodrizzle", "module")
    IN  Stmt(s9, {}, "", "DashData", "class")

\* Cell at line 121: the IMA products of the observation.
Cell_ProductList(k) ==
    LET s1 == Stmt(k, {"Observations", "obsTable"}, "", "product_list", "Table")
        s2 == Stmt(s1, {"product_list"}, "", "BM", "mask")
        s3 == Stmt(s2, {"product_list", "BM"}, "", "product_list", "Table")
    IN  Expr(s3, {"product_list"}, "")

\* Cell at line 157: the IMA and the FLT file of the exposure are downloaded
\* to mastDownload/HST/<root>/; the table returned names their local paths.
Cell_Download(k, e) ==
    LET dir == "mastDownload/HST/" \o e.root \o "/" \o e.root \o "_"
        s1  == Stmt(k, {"Observations", "myID"}, "", "download",
                    [LocalPath |-> <<dir \o "flt.fits", dir \o "ima.fits">>])
    IN  Once({IF x.err # "" THEN x
              ELSE [x EXCEPT !.files = @ \cup {dir \o "flt.fits", dir \o "ima.fits"}]
              : x \in {s1}})

\* Cell at line 191: the second local path without its last eight
\* characters, 'ima.fits' or 'flt.fits'; the IMA and the FLT file are opened.
\* An HDUList is known by its file and, for the IMA, by the number of samples
\* in its header.
Cell_OpenLocal(k, e) ==
    LET s1 == Once({Stmt(z, {"download"}, "", "localpathtofile",
                         CHOOSE stem \in {"mastDownload/HST/" \o r \o "/" \o r \o "_"
                                          : r \in DashRoots} :
                            V(z.ns, "download").LocalPath[2]
                            \in {stem \o "ima.fits", stem \o "flt.fits"})
                    : z \in {k}})
        s2 == Expr(s1, {"localpathtofile"}, "")
        s3 == Once({Stmt(z, {"fits", "localpathtofile"},
                         open_raises(z, V(z.ns, "localpathtofile") \o "ima.fits"),
                         "original_ima",
                         [name |-> V(z.ns, "localpathtofile") \o "ima.fits", NSAMP |-> e.nsamp])
                    : z \in {s2}})
        s4 == Once({Stmt(z, {"fits", "localpathtofile"},
                         open_raises(z, V(z.ns, "localpathtofile") \o "flt.fits"),
                         "original_flt",
                         [name |-> V(z.ns, "localpathtofile") \o "flt.fits", NSAMP |-> 0])
                    : z \in {s3}})
    IN  Expr(s4, {"original_ima"}, "")

\* Cell at line 214: the reads of the IMA file, four to a line.  With a
\* single line plt.subplots returns a one-dimensional array, and
\* axarr[row,col] raises in the first pass of the loop.
Cell_PlotReads(k) ==
    LET s1 == Once({Stmt(z, {"original_ima"}, "", "nsamp", V(z.ns, "original_ima").NSAMP)
                    : z \in {k}})
        s2 == PrintStmt(Expr(s1, {"nsamp"}, ""), "NSAMP")
        s3 == Stmt(s2, {"plt", "nsamp"}, "", "fig", "Figure")
        s4 == Once({Stmt(z, {"nsamp"}, "", "axarr", [lines |-> (V(z.ns, "nsamp") + 3) \div 4])
                    : z \in {s3}})
        s5 == Once({Stmt(z, {"nsamp"}, "", "i",
                         IF V(z.ns, "axarr").lines = 1 THEN 1
                         ELSE 4 * ((V(z.ns, "nsamp") + 3) \div 4))
                    : z \in {s4}})
        s6 == Once({Stmt(z, {"i"}, "", "row", (V(z.ns, "i") - 1) \div 4) : z \in {s5}})
        s7 == Once({Stmt(z, {"i"}, "", "col", (V(z.ns, "i") - 1) % 4) : z \in {s6}})
        s8 == Stmt(s7, {"np", "original_ima", "i", "nsamp"}, "", "immed", "float")
        s9 == Stmt(s8, {"np", "original_ima", "i"}, "", "stdev", "float")
        s10 == Once({Expr(z, {"axarr", "row", "col", "original_ima", "immed", "stdev"},
                          IF V(z.ns, "axarr").lines = 1 THEN "IndexError" ELSE "")
                     : z \in {s9}})
    IN  Expr(s10, {"fig"}, "")

\* os.mkdir(path)
mkdir(k, path) ==
    Once({IF x.err # "" THEN x
          ELSE IF path \in x.files THEN [x EXCEPT !.err = "FileExistsError"]
          ELSE [x EXCEPT !.files = @ \cup {path}] : x \in {k}})

\* os.environ[name] = value
SetEnv(k, name, value) ==
    Once({IF x.err # "" THEN x
          ELSE IF ~IsBound(x.ns, "os") THEN [x EXCEPT !.err = "NameError"]
          ELSE [x EXCEPT !.environ[name] = <<value>>] : x \in {k}})

\* Cell_Environment with os.mkdir not guarded by os.path.exists.
Cell_Environment_NoGuard(k) ==
    LET s1 == SetEnv(k, "CRDS_SERVER_URL", "https://hst-crds.stsci.edu")
        s2 == SetEnv(s1, "CRDS_SERVER", "https://hst-crds.stsci.edu")
        s3 == SetEnv(s2, "CRDS_PATH", "./crds_cache")
        s4 == SetEnv(s3, "iref", "iref/")
    IN  mkdir(s4, "iref")

\* Cell at line 254: the environment variables of CRDS, and the directory
\* iref when it is not there.
Cell_Environment(k) ==
    LET s1 == SetEnv(k, "CRDS_SERVER_URL", "https://hst-crds.stsci.edu")
        s2 == SetEnv(s1, "CRDS_SERVER", "https://hst-crds.stsci.edu")
        s3 == SetEnv(s2, "CRDS_PATH", "./crds_cache")
        s4 == SetEnv(s3, "iref", "iref/")
    IN  Once({IF x.err = "" /\ "iref" \in x.files THEN x ELSE mkdir(x, "iref") : x \in {s4}})

\* Cell at line 279, the loop: one crds bestrefs command for every file.
RECURSIVE BestrefsLoop(_, _, _)
BestrefsLoop(k, ima_files, j) ==
    Once({IF x.err # "" \/ j > Len(ima_files) THEN x
          ELSE LET s1 == Stmt(x, {}, "", "file", ima_files[j])
                   s2 == Once({Stmt(z, {"file"}, "", "command_line_input",
                                    "crds bestrefs --files " \o V(z.ns, "file")
                                    \o " --sync-references=1 --update-bestrefs")
                               : z \in {s1}})
                   s3 == Once({Call(z, {"os", "command_line_input"},
                                    V(z.ns, "command_line_input"), FALSE, {})
                               : z \in {s2}})
               IN  BestrefsLoop(s3, ima_files, j + 1) : x \in {k}})

\* Cell at line 279: crds bestrefs for the IMA files of the working
\* directory, which glob('*_ima.fits') lists, here by name.
Cell_Bestrefs(k) ==
    LET s1 == Stmt(k, {"glob"}, "", "ima_files",
                   SelectSeq(<<"idnm0jaaq_ima.fits", "idnm0jabq_ima.fits">>,
                             LAMBDA f : f \in k.files))
    IN  Once({IF x.err # "" THEN x ELSE BestrefsLoop(x, V(x.ns, "ima_files"), 1) : x \in {s1}})

\* Cell at line 332: the DashData object of the exposure; its root is the
\* rootname in the name of the IMA file, and it has no diff files yet.
Cell_DashData(k) ==
    LET s1 == Call(k, {"DashData", "localpathtofile"}, "DashData", FALSE, {})
        s2 == Once({Stmt(z, {"DashData", "localpathtofile"}, "", "myDash",
                         [root |-> CHOOSE r \in DashRoots :
                                      V(z.ns, "localpathtofile")
                                      = "mastDownload/HST/" \o r \o "/" \o r \o "_",
                          diff_files_list |-> Unbound])
                    : z \in {s1}})
    IN  PrintStmt(Expr(s2, {"myDash"}, ""), "root")

\* myDash.split_ima() (line 354): a diff file in ./diff for every read after
\* the first, and their names without '_diff.fits' in myDash.diff_files_list.
split_ima(k, e) ==
    LET s1 == Once({Call(z, {"myDash"}, "split_ima", FALSE,
                         {"diff/" \o V(z.ns, "myDash").root \o "_" \o Pad2(j) \o "_diff.fits"
                          : j \in 1..(e.nsamp - 1)})
                    : z \in {k}})
    IN  Once({Stmt(z, {"myDash"}, "", "myDash",
                   [V(z.ns, "myDash") EXCEPT !.diff_files_list =
                       << [j \in 1..(e.nsamp - 1) |->
                              "diff/" \o V(z.ns, "myDash").root \o "_" \o Pad2(j)] >>])
              : z \in {s1}})

\* Cell at line 370, more than four diff files: four to a line, every diff
\* file opened in turn.
PlotDiffsLines(k) ==
    LET list == V(V(k.ns, "myDash"), "diff_files_list")
        s1 == Stmt(k, {"plt", "ndiff"}, "", "fig", "Figure")
        s2 == Once({Stmt(z, {"ndiff"}, "", "axarr", [lines |-> (V(z.ns, "ndiff") + 3) \div 4])
                    : z \in {s1}})
        s3 == Once({Stmt(z, {"ndiff"}, "", "i", 4 * ((V(z.ns, "ndiff") + 3) \div 4) - 1)
                    : z \in {s2}})
        s4 == Once({Stmt(z, {"i"}, "", "row", V(z.ns, "i") \div 4) : z \in {s3}})
        s5 == Once({Stmt(z, {"i"}, "", "col", V(z.ns, "i") % 4) : z \in {s4}})
        s6 == Once({Stmt(z, {"fits", "myDash", "ndiff"},
                         IF \A j \in 1..Len(list) : (list[j] \o "_diff.fits") \in z.files
                         THEN "" ELSE "FileNotFoundError",
                         "diff_i", [name |-> list[Len(list)] \o "_diff.fits", NSAMP |-> 0])
                    : z \in {s5}})
        s7 == Stmt(s6, {"np", "diff_i"}, "", "immed", "float")
        s8 == Stmt(s7, {"np", "diff_i"}, "", "stdev", "float")
    IN  Expr(s8, {"fig", "axarr"}, "")

\* Cell at line 370, up to four diff files: a single line; the loop reads
\* diff_i for the median before it opens the diff file.
PlotDiffsSingle(k) ==
    LET list == V(V(k.ns, "myDash"), "diff_files_list")
        s1 == Once({Stmt(z, {"plt", "ndiff"}, IF V(z.ns, "ndiff") = 0 THEN "ValueError" ELSE "",
                         "fig", "Figure")
                    : z \in {k}})
        s2 == Once({Stmt(z, {"ndiff"}, "", "axarr",
                         IF V(z.ns, "ndiff") = 1 THEN "Axes" ELSE [lines |-> 1])
                    : z \in {s1}})
        s3 == Stmt(s2, {}, "", "i", 0)
        s4 == Stmt(s3, {"np", "diff_i"}, "", "immed", "float")
        s5 == Stmt(s4, {"np", "diff_i"}, "", "stdev", "float")
        s6 == Once({Stmt(z, {"fits", "myDash", "i"},
                         IF \A j \in 1..Len(list) : (list[j] \o "_diff.fits") \in z.files
                         THEN "" ELSE "FileNotFoundError",
                         "diff_i", [name |-> list[Len(list)] \o "_diff.fits", NSAMP |-> 0])
                    : z \in {s5}})
        s7 == Once({Expr(z, {"axarr", "i", "diff_i", "immed", "stdev"},
                         IF V(z.ns, "axarr") = "Axes" THEN "TypeError" ELSE "")
                    : z \in {s6}})
        s8 == Once({Stmt(z, {"ndiff"}, "", "i", V(z.ns, "ndiff") - 1) : z \in {s7}})
    IN  Expr(s8, {"fig"}, "")

\* Cell at line 370: the number of diff files, and the diff files plotted.
Cell_PlotDiffs(k) ==
    LET s1 == Once({Stmt(z, {"myDash"},
                         IF IsBound(V(z.ns, "myDash"), "diff_files_list") THEN ""
                         ELSE "AttributeError",
                         "ndiff", Len(V(V(z.ns, "myDash"), "diff_files_list")))
                    : z \in {k}})
        s2 == PrintStmt(Expr(s1, {"ndiff"}, ""), "Number of diff files")
    IN  Once({IF x.err # "" THEN x
              ELSE IF V(x.ns, "ndiff") > 4 THEN PlotDiffsLines(x)
              ELSE PlotDiffsSingle(x) : x \in {s2}})

\* myDash.make_pointing_asn() (line 422): the association table in ./diff.
make_pointing_asn(k) ==
    Once({Call(z, {"myDash"}, "make_pointing_asn", FALSE,
               {"diff/" \o V(z.ns, "myDash").root \o "_asn.fits"})
          : z \in {k}})

\* Cell at line 438: the association table read from ./diff.
Cell_ShowAsn(k) ==
    LET s1 == Once({Stmt(z, {"myDash"}, "", "asn_filename",
                         "diff/" \o V(z.ns, "myDash").root \o "_asn.fits")
                    : z \in {k}})
        s2 == Once({Stmt(z, {"Table", "fits", "asn_filename"},
                         open_raises(z, V(z.ns, "asn_filename")), "asn_table", "Table")
                    : z \in {s1}})
    IN  Expr(s2, {"asn_table"}, "")

\* myDash.create_seg_map() (line 459): the segmentation map of the FLT image
\* and its source list in ./segmentation_maps.
create_seg_map(k) ==
    Once({Call(z, {"myDash"}, "create_seg_map", FALSE,
               {"segmentation_maps/" \o V(z.ns, "myDash").root \o "_seg.fits",
                "segmentation_maps/" \o V(z.ns, "myDash").root \o "_source_list.dat"})
          : z \in {k}})

\* Cell at line 477: the segmentation map of the FLT image.
Cell_PlotSegmap(k) ==
    LET s1 == Once({Stmt(z, {"myDash"}, "", "rootname", V(z.ns, "myDash").root) : z \in {k}})
        s2 == Once({Stmt(z, {"rootname"}, "", "segmap_name",
                         "segmentation_maps/" \o V(z.ns, "rootname") \o "_seg.fits")
                    : z \in {s1}})
        s3 == Once({Stmt(z, {"fits", "segmap_name"},
                         open_raises(z, V(z.ns, "segmap_name")), "segmap", "ndarray")
                    : z \in {s2}})
        s4 == Stmt(s3, {"plt"}, "", "fig", "Figure")
    IN  Expr(s4, {"plt", "segmap_name", "segmap"}, "")

\* Cell at line 499: the source list.
Cell_SourceList(k) ==
    LET s1 == Once({Stmt(z, {"rootname"}, "", "sourcelist_name",
                         "segmentation_maps/" \o V(z.ns, "rootname") \o "_source_list.dat")
                    : z \in {k}})
        s2 == Once({Stmt(z, {"ascii", "sourcelist_name"},
                         open_raises(z, V(z.ns, "sourcelist_name")), "sourcelist", "Table")
                    : z \in {s1}})
    IN  PrintStmt(Expr(s2, {"sourcelist"}, ""), "sourcelist")

\* Cell at line 519: the diff files of the exposure in ./diff, sorted, with
\* the full path; the working directory is /cwd.
Cell_DiffPaths(k) ==
    LET s1 == Stmt(k, {"os", "rootname"}, "", "diffpath", "/cwd/diff")
        s2 == Once({Stmt(z, {"os", "glob", "rootname"}, "", "cat_images",
                         SelectSeq([j \in 1..99 |->
                                      V(z.ns, "rootname") \o "_" \o Pad2(j) \o "_diff.fits"],
                                   LAMBDA f : ("diff/" \o f) \in z.files))
                    : z \in {s1}})
    IN  Once({Stmt(z, {"diffpath", "cat_images"}, "", "sc_diff_files",
                   [j \in 1..Len(V(z.ns, "cat_images")) |->
                       V(z.ns, "diffpath") \o "/" \o V(z.ns, "cat_images")[j]])
              : z \in {s2}})

\* myDash.diff_seg_map(cat_images=sc_diff_files) (line 537): a segmentation
\* map <root>_NN_diff_seg.fits for every diff file <root>_NN_diff.fits given.
diff_seg_map(k) ==
    Once({Call(z, {"myDash", "sc_diff_files"}, "diff_seg_map", FALSE,
               {"segmentation_maps/" \o V(z.ns, "myDash").root \o "_" \o Pad2(j)
                \o "_diff_seg.fits"
                : j \in {n \in 1..99 :
                           \E c \in 1..Len(V(z.ns, "sc_diff_files")) :
                              V(z.ns, "sc_diff_files")[c]
                              = "/cwd/diff/" \o V(z.ns, "myDash").root \o "_" \o Pad2(n)
                                \o "_diff.fits"}})
          : z \in {k}})

\* Cell at line 553: the segmentation map of the first diff file.
Cell_PlotDiffSegmap(k) ==
    LET s1 == Once({Stmt(z, {"rootname"}, "", "segmap_name",
                         "segmentation_maps/" \o V(z.ns, "rootname") \o "_01_diff_seg.fits")
                    : z \in {k}})
        s2 == Once({Stmt(z, {"fits", "segmap_name"},
                         open_raises(z, V(z.ns, "segmap_name")), "segmap", "ndarray")
                    : z \in {s1}})
        s3 == Stmt(s2, {"plt"}, "", "fig", "Figure")
    IN  Expr(s3, {"plt", "segmap_name", "segmap"}, "")

\* align without AstroDrizzle, whatever astrodriz is.
align_NoDrizzle(k, updatehdr, updatewcs, astrodriz) ==
    Once({Call(z, {"myDash"}, "align", astrodriz,
               {"shifts/shifts_" \o V(z.ns, "myDash").root \o ".txt"})
          : z \in {k}})

\* myDash.align(...) (lines 636, 679): TweakReg writes the shifts file, then,
\* with astrodriz, AstroDrizzle writes the drizzled science image.
align(k, updatehdr, updatewcs, astrodriz) ==
    Once({Call(z, {"myDash"}, "align", astrodriz,
               {"shifts/shifts_" \o V(z.ns, "myDash").root \o ".txt"}
               \cup (IF astrodriz THEN {V(z.ns, "myDash").root \o "_drz_sci.fits"} ELSE {}))
          : z \in {k}})

\* Cell at line 652: the first shifts file, as a table.
Cell_Shifts(k) ==
    LET s1 == Stmt(k, {"glob"}, "", "shift_file",
                   SelectSeq(<<"shifts/shifts_idnm0jaaq.txt", "shifts/shifts_idnm0jabq.txt">>,
                             LAMBDA f : f \in k.files))
        s2 == Once({Stmt(z, {"shift_file"},
                         IF Len(V(z.ns, "shift_file")) = 0 THEN "IndexError" ELSE "",
                         "shift_file_name", V(z.ns, "shift_file")[1])
                    : z \in {s1}})
        s3 == Once({Stmt(z, {"Table", "shift_file_name"},
                         open_raises(z, V(z.ns, "shift_file_name")), "shift_tab", "Table")
                    : z \in {s2}})
        s4 == Stmt(s3, {}, "", "formats", <<".2f", ".2f", ".3f", ".5f", ".2f", ".2f">>)
        s5 == Stmt(s4, {"shift_tab", "formats"}, "", "i", 5)
        s6 == Stmt(s5, {"shift_tab", "formats"}, "", "col", "yrms")
    IN  Expr(s6, {"shift_tab"}, "")

\* Cell at line 700: the drizzled science image beside the original IMA.
Cell_PlotResult(k) ==
    LET s1 == Once({Stmt(z, {"myDash"}, "", "sci_name",
                         V(z.ns, "myDash").root \o "_drz_sci.fits")
                    : z \in {k}})
        s2 == Once({Stmt(z, {"myDash"}, "", "og_flt_name",
                         "mastDownload/HST/" \o V(z.ns, "myDash").root \o "/"
                         \o V(z.ns, "myDash").root \o "_ima.fits")
                    : z \in {s1}})
        s3 == Once({Stmt(z, {"fits", "sci_name"},
                         open_raises(z, V(z.ns, "sci_name")), "sci", "ndarray")
                    : z \in {s2}})
        s4 == Once({Stmt(z, {"fits", "og_flt_name"},
                         open_raises(z, V(z.ns, "og_flt_name")), "og_flt", "ndarray")
                    : z \in {s3}})
        s5 == Stmt(s4, {"plt"}, "", "fig", "Figure")
        s6 == Stmt(s5, {"fig"}, "", "ax1", "Axes")
        s7 == Stmt(s6, {"fig"}, "", "ax2", "Axes")
    IN  Expr(s7, {"ax1", "ax2", "sci", "og_flt", "plt"}, "")

(***************************************************************************)
(* The DASH notebook as a state machine                                    *)
(***************************************************************************)

\* What the session starts from: the exposure that is first in the product
\* list and the number of samples of its IMA file; whether the directory
\* iref is there already, whether a copy of the IMA file lies in the working
\* directory, and whether the shell has set the CRDS variables already.
DashSettingsChoices ==
    [root : DashRoots, nsamp : {4, 5, 8}, iref : BOOLEAN, ima_copy : BOOLEAN, shell : BOOLEAN]

DashInit ==
    /\ ns = [x \in DashNames |-> Unbound]
    /\ out = ""
    /\ err = ""
    /\ br = "-"
    /\ pc = 0
    /\ jumps = 0
    /\ edits \in DashSettingsChoices
    /\ environ = [x \in EnvNames |-> IF edits.shell THEN <<"shell">> ELSE Unbound]
    /\ files = (IF edits.iref THEN {"iref"} ELSE {})
               \cup (IF edits.ima_copy THEN {edits.root \o "_ima.fits"} ELSE {})
    /\ calls = << >>

\* The orders of the cells: down the page; or, leaving that order, the
\* environment cell again, straight after it, after the bestrefs cell or at
\* the end of the notebook.
DashCanRun(i) ==
    \/ pc = i - 1
    \/ /\ jumps < MaxJumps
       /\ i = 9
       /\ pc \in {9, 10, 29}

DashRun(i, k) ==
    /\ DashCanRun(i)
    /\ \E x \in {k} :
          /\ ns' = x.ns
          /\ out' = x.out
          /\ err' = x.err
          /\ br' = x.br
          /\ environ' = x.environ
          /\ files' = x.files
          /\ calls' = x.calls
    /\ pc' = i
    /\ jumps' = IF pc = i - 1 THEN jumps ELSE jumps + 1
    /\ UNCHANGED edits

\* One action for every code cell, in the order of the notebook.
NextDash ==
    \/ DashRun(1, Cell_Imports(DashKernel(ns, environ, files, calls)))
    \/ DashRun(2, Stmt(DashKernel(ns, environ, files, calls),
                       {"Observations"}, "", "obsTable", "Table"))              \* line 105
    \/ DashRun(3, Cell_ProductList(DashKernel(ns, environ, files, calls)))
    \/ DashRun(4, Stmt(DashKernel(ns, environ, files, calls),
                       {"product_list"}, "", "myID", "Column"))                 \* line 141
    \/ DashRun(5, Cell_Download(DashKernel(ns, environ, files, calls), edits))
    \/ DashRun(6, Expr(DashKernel(ns, environ, files, calls), {"download"}, "")) \* line 173
    \/ DashRun(7, Cell_OpenLocal(DashKernel(ns, environ, files, calls), edits))
    \/ DashRun(8, Cell_PlotReads(DashKernel(ns, environ, files, calls)))
    \/ DashRun(9, Cell_Environment(DashKernel(ns, environ, files, calls)))
    \/ DashRun(10, Cell_Bestrefs(DashKernel(ns, environ, files, calls)))
    \/ DashRun(11, Cell_comment(DashKernel(ns, environ, files, calls)))         \* line 305
    \/ DashRun(12, Cell_DashData(DashKernel(ns, environ, files, calls)))
    \/ DashRun(13, split_ima(DashKernel(ns, environ, files, calls), edits))
    \/ DashRun(14, Cell_PlotDiffs(DashKernel(ns, environ, files, calls)))
    \/ DashRun(15, make_pointing_asn(DashKernel(ns, environ, files, calls)))
    \/ DashRun(16, Cell_ShowAsn(DashKernel(ns, environ, files, calls)))
    \/ DashRun(17, create_seg_map(DashKernel(ns, environ, files, calls)))
    \/ DashRun(18, Cell_PlotSegmap(DashKernel(ns, environ, files, calls)))
    \/ DashRun(19, Cell_SourceList(DashKernel(ns, environ, files, calls)))
    \/ DashRun(20, Cell_DiffPaths(DashKernel(ns, environ, files, calls)))
    \/ DashRun(21, diff_seg_map(DashKernel(ns, environ, files, calls)))
    \/ DashRun(22, Cell_PlotDiffSegmap(DashKernel(ns, environ, files, calls)))
    \/ DashRun(23, Call(DashKernel(ns, environ, files, calls), {"myDash"},
                        "subtract_background_reads", FALSE, {}))                \* line 578
    \/ DashRun(24, Call(DashKernel(ns, environ, files, calls), {"myDash"},
                        "fix_cosmic_rays", FALSE, {}))                          \* line 597
    \/ DashRun(25, align(DashKernel(ns, environ, files, calls), FALSE, TRUE, FALSE))
    \/ DashRun(26, Cell_Shifts(DashKernel(ns, environ, files, calls)))
    \/ DashRun(27, align(DashKernel(ns, environ, files, calls), TRUE, TRUE, TRUE))
    \/ DashRun(28, Cell_PlotResult(DashKernel(ns, environ, files, calls)))
    \/ DashRun(29, Cell_comment(DashKernel(ns, environ, files, calls)))         \* line 781

SpecDash == DashInit /\ [][NextDash]_vars

(***************************************************************************)
(* Properties of the DASH notebook                                         *)
(***************************************************************************)

\* The calls of the pipeline in the order of the notebook's sections 3.1 to
\* 3.7.
ExpectedCalls ==
    <<"DashData", "split_ima", "make_pointing_asn", "create_seg_map", "diff_seg_map",
      "subtract_background_reads", "fix_cosmic_rays", "align", "align">>

\* The names of the pipeline calls in the log, shell commands left out.
PipelineCalls(c) ==
    LET made == SelectSeq(c, LAMBDA x : \E j \in 1..Len(ExpectedCalls) : x.call = ExpectedCalls[j])
    IN  [j \in 1..Len(made) |-> made[j].call]

\* The pipeline products a cell reads, and the call that writes them.
ProductsRead(i, root, nsamp) ==
    CASE i \in {14, 20} ->
           [files |-> {"diff/" \o root \o "_" \o Pad2(j) \o "_diff.fits" : j \in 1..(nsamp - 1)},
            call |-> "split_ima"]
      [] i = 16 -> [files |-> {"diff/" \o root \o "_asn.fits"}, call |-> "make_pointing_asn"]
      [] i = 18 -> [files |-> {"segmentation_maps/" \o root \o "_seg.fits"},
                    call |-> "create_seg_map"]
      [] i = 19 -> [files |-> {"segmentation_maps/" \o root \o "_source_list.dat"},
                    call |-> "create_seg_map"]
      [] i = 22 -> [files |-> {"segmentation_maps/" \o root \o "_01_diff_seg.fits"},
                    call |-> "diff_seg_map"]
      [] i = 26 -> [files |-> {"shifts/shifts_" \o root \o ".txt"}, call |-> "align"]
      [] i = 28 -> [files |-> {root \o "_drz_sci.fits"}, call |-> "align"]
      [] OTHER  -> [files |-> {}, call |-> ""]

C13_Step ==
    jumps' = 0
    => LET made == PipelineCalls(calls')
           read == ProductsRead(pc', edits.root, edits.nsamp)
       IN  /\ Len(made) <= Len(ExpectedCalls)
           /\ made = SubSeq(ExpectedCalls, 1, Len(made))
           /\ pc' >= 27 => made = ExpectedCalls
           /\ read.files \subseteq files
           /\ read.files # {} =>
                 /\ \E j \in 1..Len(calls) :
                       /\ calls[j].call = read.call
                       /\ pc' = 28 => calls[j].astrodriz
                 /\ err' \notin {"FileNotFoundError", "AttributeError", "IndexError"}

\* C13: in the run down the page the pipeline calls are made in the order
\* DashData, split_ima, make_pointing_asn, create_seg_map, diff_seg_map,
\* subtract_background_reads, fix_cosmic_rays, align, align, and nothing
\* else of the pipeline; when a cell that reads a pipeline product starts,
\* the call that writes the product has been made and the product is on
\* disk, so no such cell fails for a missing file or attribute; the cell
\* that reads <root>_drz_sci.fits starts after an align call with astrodriz
\* True.
C13_CallsInOrder == [][C13_Step]_vars

\* C13 witness: the run down the page has made the nine calls and has read
\* the drizzled science image; the first align call was made with astrodriz
\* False.
C13_Witness ==
    /\ pc = 28 /\ jumps = 0 /\ err = ""
    /\ IsBound(ns, "sci")
    /\ PipelineCalls(calls) = ExpectedCalls
    /\ (edits.root \o "_drz_sci.fits") \in files
    /\ \E j \in 1..Len(calls) : calls[j].call = "align" /\ ~calls[j].astrodriz

\* The environment the notebook asks for: the four variables with the values
\* of the environment cell, and the directory iref.
EnvReady(e, f) ==
    /\ e = [CRDS_SERVER_URL |-> <<"https://hst-crds.stsci.edu">>,
            CRDS_SERVER |-> <<"https://hst-crds.stsci.edu">>,
            CRDS_PATH |-> <<"./crds_cache">>,
            iref |-> <<"iref/">>]
    /\ "iref" \in f

C14_Step ==
    /\ Len(calls') > Len(calls) => EnvReady(environ, files)
    /\ (pc' = 9 /\ "iref" \in files)
       => (err' = "" /\ files' = files /\ EnvReady(environ', files'))

\* C14: whenever a crds bestrefs command is issued, DashData is called or a
\* method of the DashData object is called, the four environment variables
\* are set, to the values of the environment cell, and the directory iref
\* is there; and the environment cell run when iref is there already raises
\* nothing, leaves the disk as it is and sets the variables.
C14_EnvironmentFirst == [][C14_Step]_vars

\* C14 witness: the environment cell has made iref, a crds bestrefs command
\* was issued, and the environment cell was run again without an exception.
C14_Witness ==
    /\ pc = 9 /\ jumps = 1 /\ err = ""
    /\ ~edits.iref /\ ~edits.shell
    /\ "iref" \in files
    /\ Len(calls) = 1
    /\ EnvReady(environ, files)

====
